---- MODULE Spec2Model ----
(***************************************************************************)
(* Model of the retrieval core of gigo_retrieval:                           *)
(*   src/gigo_retrieval/src/references/extractor.py                         *)
(*   src/gigo_retrieval/src/references/extractors/*.py                      *)
(*   src/gigo_retrieval/src/references/models.py                            *)
(*   src/gigo_retrieval/src/strategies/*.py                                 *)
(*   src/gigo_retrieval/src/services.py                                     *)
(* and of the parts of gigo_ingestion it rests on:                          *)
(*   src/gigo_ingestion/src/db/manager.py, src/db/collection.py             *)
(*   src/gigo_ingestion/src/indexer.py                                      *)
(*   src/gigo_ingestion/main.py                                             *)
(*                                                                         *)
(* The specifications that share the module:                                *)
(*   SpecFormat     the two _format_results applied to the same points;     *)
(*   SpecRetrieve   a retriever made by RetrieverFactory (or constructed)   *)
(*                  and one retrieve call against a stored collection;      *)
(*   SpecService    one answer_question request, call by call;              *)
(*   SpecFormatted  the extraction machine over results made by             *)
(*                  _format_results from stored payloads;                   *)
(*   SpecConnection operations on the process-wide QDrantConnectionManager; *)
(*   SpecIndexer    QdrantIndexer: the page loop, then the batch loop       *)
(*                  (SpecIndexerLive adds weak fairness of the steps of     *)
(*                  index_documents);                                      *)
(*   SpecPipeline   one DocumentPipeline.process_document call;             *)
(*   SpecDedup      deduplicate_references applied once and twice to a      *)
(*                  References value drawn from bounded pools;              *)
(*   SpecCorrelate  correlate_references_with_files applied to a References *)
(*                  value against a set of files that exist on disk;        *)
(*   SpecExtract    extract_tables_and_figures_references run extractor by  *)
(*                  extractor over a mapping of payloads of the documented  *)
(*                  shape; SpecMalformed is the same machine started from   *)
(*                  mappings that may also hold malformed payload entries.  *)
(*                                                                         *)
(* Python values are tagged records, so that None, the string "None", the   *)
(* empty string, integers, lists and mappings stay distinct.  A Python str  *)
(* that the code takes apart (identifiers) is a sequence of one-character   *)
(* strings; a str the code only builds (keys, paths) is a TLA+ string made  *)
(* by real concatenation.  Where the outcome of a call depends on the order *)
(* of a hash table (list() and sorted() of a set of str), the operator is   *)
(* the set of the outcomes the call can have.                               *)
(***************************************************************************)
EXTENDS Integers, Sequences, FiniteSets, TLC

VARIABLES
    dd_pc,        \* SpecDedup: "idle" | "start" | "once" | "twice"
    dd_in,        \* the References value given to deduplicate_references
    dd_once,      \* deduplicate_references(dd_in)
    dd_twice,     \* deduplicate_references(dd_once)
    co_pc,        \* SpecCorrelate: "idle" | "start" | "tables" | "done" | "raised"
    co_files,     \* the paths for which Path.exists() is true
    co_in,        \* the References value as given to correlate_references_with_files
    co_refs,      \* the same References object, mutated in place
    ex_pc,        \* SpecExtract: "idle" | "extract" | "correlate" | "dedup" | "dump" | "done" | "raised"
    ex_points,    \* relevant_points: sequence of [sub_question, results], keys distinct
    ex_files,     \* the paths for which Path.exists() is true
    ex_n,         \* position of the (sub_question, result) pair the loops are at
    ex_k,         \* index in `extractors` of the extractor to apply next
    ex_log,       \* history: every extract call made and what it returned
    all_tables,   \* extractor.py:99
    all_figures,  \* extractor.py:100
    ex_refs,      \* the References object of extractor.py:112-118
    ex_out,       \* the returned dictionary
    ex_exc,       \* the exception that left the function, "none" when none did
    fm_pc,        \* SpecFormat: "idle" | "start" | "base" | "done"
    fm_results,   \* results.points as the store returned them: [id, score, payload]
    fm_base,      \* outcome of BaseQdrantRetriever._format_results(fm_results)
    fm_fusion,    \* outcome of FusionybridRetriever._format_results(fm_results)
    rt_pc,        \* SpecRetrieve: "idle" | "start" | "created" | "returned" | "raised"
    rt_tag,       \* the search_type given to RetrieverFactory.create_retriever
    rt_client,    \* whether an openai_client is given
    rt_retriever, \* class of the retriever object, "none" before construction
    rt_args,      \* keyword arguments of the retrieve call: limit, prefetch_limit, score_threshold
    rt_store,     \* the collection: for every point its score under every vector field
    rt_query,     \* the arguments retrieve gave to client.query_points
    rt_points,    \* results.points returned by the store
    rt_out,       \* the list retrieve returned
    rt_exc,       \* the exception that left the call, "none" when none did
    sv_pc,        \* SpecService: "idle" | "start" | "retrieve" | "extract" | "llm" | "done" | "raised"
    sv_strategy,  \* whether RetrievalService holds a retriever_strategy
    sv_env,       \* what the collaborators will do in this request
    sv_i,         \* index of the next SubQuestionMapping of the loop
    sv_results,   \* results: sequence of [key, value], keys distinct, insertion order
    sv_calls,     \* history: every collaborator call made by the request
    sv_out,       \* the returned dictionary, PyNone before the return
    sv_exc,       \* the exception that left answer_question, "none" when none did
    cm_pc,        \* SpecConnection: "idle" | "run"
    cm_instance,  \* QDrantConnectionManager._instance: 0 for None, else the object's number
    cm_client,    \* _instance._client: 0 for None, else the number of the QdrantClient
    cm_made,      \* how many QdrantClient objects init() has constructed
    cm_log,       \* history: every operation on the manager and what it left and returned
    ix_pc,        \* SpecIndexer: "idle" | "process" | "index" | "indexed"
    ix_pages,     \* page_metadata_list
    ix_batch_size, \* self.batch_size
    ix_full,      \* self.include_full_metadata
    ix_i,         \* _process_page_metadata: index of the page the loop is at
    ix_ids,       \* self.ids
    ix_documents, \* self.documents
    ix_metadata,  \* self.metadata
    ix_processed, \* index_documents: processed
    ix_attempts,  \* history: the (processed, end_idx) of every batch attempted
    ix_failed,    \* index_documents: failed_batches
    ix_upserted,  \* the points given to upsert_points by the batches that succeeded
    pd_pc,        \* SpecPipeline: "idle" | "start" | the step to run next | "returned" | "raised"
    pd_args,      \* process_document arguments and whether the PDF file exists
    pd_env,       \* what the components will do in this call
    pd_results,   \* the results dictionary
    pd_calls,     \* history: the steps attempted, in order
    pd_exc        \* the exception that left process_document, "none" when none did

ddVars == <<dd_pc, dd_in, dd_once, dd_twice>>
coVars == <<co_pc, co_files, co_in, co_refs>>
exVars == <<ex_pc, ex_points, ex_files, ex_n, ex_k, ex_log,
            all_tables, all_figures, ex_refs, ex_out, ex_exc>>
refVars == <<ddVars, coVars, exVars>>
fmVars == <<fm_pc, fm_results, fm_base, fm_fusion>>
rtVars == <<rt_pc, rt_tag, rt_client, rt_retriever, rt_args, rt_store, rt_query,
            rt_points, rt_out, rt_exc>>
svVars == <<sv_pc, sv_strategy, sv_env, sv_i, sv_results, sv_calls, sv_out, sv_exc>>
cmVars == <<cm_pc, cm_instance, cm_client, cm_made, cm_log>>
ixVars == <<ix_pc, ix_pages, ix_batch_size, ix_full, ix_i, ix_ids, ix_documents, ix_metadata,
            ix_processed, ix_attempts, ix_failed, ix_upserted>>
pdVars == <<pd_pc, pd_args, pd_env, pd_results, pd_calls, pd_exc>>
igVars == <<cmVars, ixVars, pdVars>>
otherVars == <<fmVars, rtVars, svVars, igVars>>
vars == <<refVars, otherVars>>

-----------------------------------------------------------------------------
(* Bounds of the model.                                                    *)

MaxTables == 3
MaxFigures == 2
MaxCoRefs == 2
MaxResults == 3
MaxFormatPoints == 2
MaxStorePoints == 3
MaxLimit == 2
MaxPrefetchLimit == 2
MaxSubQuestions == 5

-----------------------------------------------------------------------------
(* Python values.                                                          *)

PyNone == [ty |-> "none"]
PyStr(chars) == [ty |-> "str", s |-> chars]
PyText(text) == [ty |-> "str", text |-> text]
PyInt(n) == [ty |-> "int", n |-> n]
PyBool(b) == [ty |-> "bool", b |-> b]
PyList(items) == [ty |-> "list", items |-> items]
PyDict(d) == [ty |-> "dict", d |-> d]

\* dict.get(key, default)
Get(m, key, default) == IF key \in DOMAIN m.d THEN m.d[key] ELSE default

\* bool(v): the truth value Python's `if v` and `a and b` use
Truthy(v) ==
    CASE v.ty = "none" -> FALSE
      [] v.ty = "str" -> v.s # <<>>
      [] v.ty = "int" -> v.n # 0
      [] v.ty = "bool" -> v.b
      [] v.ty = "list" -> v.items # <<>>
      [] v.ty = "dict" -> DOMAIN v.d # {}

RECURSIVE Join(_)
\* the text of a str held as a sequence of characters
Join(chars) ==
    IF chars = <<>> THEN ""
    ELSE IF Len(chars) = 1 THEN chars[1]
    ELSE Join(SubSeq(chars, 1, Len(chars) \div 2))
             \o Join(SubSeq(chars, Len(chars) \div 2 + 1, Len(chars)))

RECURSIVE JoinWith(_, _)
\* sep.join(parts)
JoinWith(sep, parts) ==
    IF parts = <<>> THEN ""
    ELSE IF Len(parts) = 1 THEN Head(parts)
    ELSE Head(parts) \o sep \o JoinWith(sep, Tail(parts))

RECURSIVE SplitOn(_, _, _)
\* chars.split(sep) for a one-character sep, acc holding the characters read
\* since the last sep seen
SplitOn(chars, sep, acc) ==
    LET seps == {i \in 1..Len(chars) : chars[i] = sep}
        first == CHOOSE i \in seps : \A j \in seps : i <= j
    IN IF seps = {} THEN <<acc \o chars>>
       ELSE <<acc \o SubSeq(chars, 1, first - 1)>>
                \o SplitOn(SubSeq(chars, first + 1, Len(chars)), sep, <<>>)

\* type(v).__name__
TypeName(v) ==
    CASE v.ty = "none" -> "NoneType"
      [] v.ty = "str" -> "str"
      [] v.ty = "int" -> "int"
      [] v.ty = "bool" -> "bool"
      [] v.ty = "list" -> "list"
      [] v.ty = "dict" -> "dict"

\* one character of a str as repr() writes it between the quotes it chose
ReprChar(c, quote) ==
    CASE c = "\\" -> "\\\\"
      [] c = "\n" -> "\\n"
      [] c = "\t" -> "\\t"
      [] c = "\r" -> "\\r"
      [] c = "\f" -> "\\x0c"
      [] c = quote -> "\\" \o c
      [] OTHER -> c

\* the quote of repr(a_str): double when the str holds a single quote and no
\* double quote, else single
ReprQuote(chars) ==
    IF (\E i \in 1..Len(chars) : chars[i] = "'") /\ ~(\E i \in 1..Len(chars) : chars[i] = "\"")
    THEN "\"" ELSE "'"

RECURSIVE Repr(_)
\* repr(v); of a dict, the empty one
Repr(v) ==
    CASE v.ty = "none" -> "None"
      [] v.ty = "bool" -> IF v.b THEN "True" ELSE "False"
      [] v.ty = "int" -> ToString(v.n)
      [] v.ty = "str" ->
            ReprQuote(v.s)
                \o Join([i \in 1..Len(v.s) |-> ReprChar(v.s[i], ReprQuote(v.s))])
                \o ReprQuote(v.s)
      [] v.ty = "list" ->
            "[" \o JoinWith(", ", [i \in 1..Len(v.items) |-> Repr(v.items[i])]) \o "]"
      [] v.ty = "dict" /\ DOMAIN v.d = {} -> "{}"

\* str(v) as an f-string formats a value: a str as it is, another value by
\* its repr()
Format(v) == IF v.ty = "str" THEN Join(v.s) ELSE Repr(v)

RECURSIVE SumSeq(_)
SumSeq(ns) == IF ns = <<>> THEN 0 ELSE Head(ns) + SumSeq(Tail(ns))

-----------------------------------------------------------------------------
(* models.py                                                               *)

\* pydantic's validation of a `str` field: a str is kept, nothing is converted
IsStrField(v) == v.ty = "str"

Whitespace == {" ", "\t", "\n", "\r", "\f"}

Digits == <<"0", "1", "2", "3", "4", "5", "6", "7", "8", "9">>

IsDigit(c) == \E d \in 1..10 : Digits[d] = c

DigitValue(c) == (CHOOSE d \in 1..10 : Digits[d] = c) - 1

RECURSIVE LStrip(_)
\* str.lstrip()
LStrip(chars) ==
    IF chars # <<>> /\ Head(chars) \in Whitespace THEN LStrip(Tail(chars)) ELSE chars

RECURSIVE RStrip(_)
\* str.rstrip()
RStrip(chars) ==
    IF chars # <<>> /\ chars[Len(chars)] \in Whitespace
    THEN RStrip(SubSeq(chars, 1, Len(chars) - 1))
    ELSE chars

\* str.strip()
Strip(chars) == LStrip(RStrip(chars))

\* the text before a decimal point that zeros, at least one, follow; else
\* the text
IntegralPart(chars) ==
    IF \E i \in 1..Len(chars) : chars[i] = "."
    THEN LET i == CHOOSE k \in 1..Len(chars) :
                      /\ chars[k] = "."
                      /\ \A j \in 1..(k - 1) : chars[j] # "."
         IN IF i < Len(chars) /\ \A j \in (i + 1)..Len(chars) : chars[j] = "0"
            THEN SubSeq(chars, 1, i - 1)
            ELSE chars
    ELSE chars

\* digits, with single underscores between digits allowed
IsDigitGroup(chars) ==
    /\ chars # <<>>
    /\ \A i \in 1..Len(chars) :
          \/ IsDigit(chars[i])
          \/ /\ chars[i] = "_"
             /\ 1 < i
             /\ i < Len(chars)
             /\ IsDigit(chars[i - 1])
             /\ IsDigit(chars[i + 1])

RECURSIVE DigitsValue(_, _)
DigitsValue(chars, acc) ==
    IF chars = <<>> THEN acc
    ELSE IF Head(chars) = "_" THEN DigitsValue(Tail(chars), acc)
    ELSE DigitsValue(Tail(chars), 10 * acc + DigitValue(Head(chars)))

\* the text of an integer as the validation of an int field reads a str:
\* surrounding whitespace, a sign, digits, and a fraction of zeros
Unsigned(chars) ==
    LET stripped == Strip(chars) IN
    IntegralPart(IF stripped # <<>> /\ Head(stripped) \in {"+", "-"}
                 THEN Tail(stripped) ELSE stripped)

ParsesAsInt(chars) == IsDigitGroup(Unsigned(chars))

IntOfStr(chars) ==
    LET stripped == Strip(chars)
        magnitude == DigitsValue(Unsigned(chars), 0)
    IN IF Head(stripped) = "-" THEN 0 - magnitude ELSE magnitude

\* pydantic's validation of an Optional[int] field: None and an int are kept,
\* a bool and a str that reads as an integer become that int, anything else
\* is a ValidationError
OptionalInt(v) ==
    CASE v.ty = "none" -> [exc |-> "none", value |-> PyNone]
      [] v.ty = "int" -> [exc |-> "none", value |-> v]
      [] v.ty = "bool" -> [exc |-> "none", value |-> PyInt(IF v.b THEN 1 ELSE 0)]
      [] v.ty = "str" -> IF ParsesAsInt(v.s)
                         THEN [exc |-> "none", value |-> PyInt(IntOfStr(v.s))]
                         ELSE [exc |-> "ValidationError", value |-> PyNone]
      [] v.ty \in {"list", "dict"} -> [exc |-> "ValidationError", value |-> PyNone]

\* the constructor of a model raising pydantic's ValidationError
ValidationError == [exc |-> "ValidationError"]

Rejected(ref) == ref = ValidationError

\* models.py:8-15
TableReference(sq, eid, page) ==
    IF IsStrField(eid) /\ OptionalInt(page).exc = "none"
    THEN [sub_question |-> sq, element_id |-> eid,
          page_number |-> OptionalInt(page).value,
          png_file |-> PyNone, html_file |-> PyNone]
    ELSE ValidationError

\* models.py:18-24
FigureReference(sq, lbl, page) ==
    IF IsStrField(lbl) /\ OptionalInt(page).exc = "none"
    THEN [sub_question |-> sq, label |-> lbl,
          page_number |-> OptionalInt(page).value, png_file |-> PyNone]
    ELSE ValidationError

References(ts, fs) == [tables |-> ts, figures |-> fs]

EmptyReferences == References(<<>>, <<>>)

-----------------------------------------------------------------------------
(* deduplicate_references                                                  *)

\* a key that leaves the page number out
TableKeyNoPage(table) == Format(table.element_id)

TableKey(table) == Format(table.element_id) \o "_" \o Format(table.page_number)

FigureKey(figure) == Format(figure.label) \o "_" \o Format(figure.page_number)

\* a survivor put in front of the list instead of behind it
UniquePrepend(unique, ref) == <<ref>> \o unique

UniqueAppend(unique, ref) == Append(unique, ref)

RECURSIVE DedupTables(_, _, _)
DedupTables(tables, seen_tables, unique_tables) ==
    IF tables = <<>> THEN unique_tables
    ELSE LET table == Head(tables)
             key == TableKey(table)
         IN  IF key \notin seen_tables
             THEN DedupTables(Tail(tables), seen_tables \cup {key},
                              UniqueAppend(unique_tables, table))
             ELSE DedupTables(Tail(tables), seen_tables, unique_tables)

RECURSIVE DedupFigures(_, _, _)
DedupFigures(figures, seen_figures, unique_figures) ==
    IF figures = <<>> THEN unique_figures
    ELSE LET figure == Head(figures)
             key == FigureKey(figure)
         IN  IF key \notin seen_figures
             THEN DedupFigures(Tail(figures), seen_figures \cup {key},
                               UniqueAppend(unique_figures, figure))
             ELSE DedupFigures(Tail(figures), seen_figures, unique_figures)

\* a deduplication that removes nothing
DedupNothing(references) == references

deduplicate_references(references) ==
    References(DedupTables(references.tables, {}, <<>>),
               DedupFigures(references.figures, {}, <<>>))

-----------------------------------------------------------------------------
(* Identifiers and sub-question texts the specifications draw from.        *)

Id_t == <<"t">>
Id_t1 == <<"t", "1">>
Id_f == <<"f">>
Id_f1 == <<"f", "1">>

Page(n) == PyInt(n)

WithFiles(ref, png, html) == [ref EXCEPT !.png_file = png, !.html_file = html]

WithPng(ref, png) == [ref EXCEPT !.png_file = png]

\* Table references: equal pairs under different sub-questions and file fields,
\* equal identifiers on different pages, pages that are None or 0, and pairs
\* ("t", 11) / ("t1", 1) whose texts run together without a separator.
DedupTablePool ==
    { TableReference("q1", PyStr(Id_t), Page(1)),
      WithFiles(TableReference("q2", PyStr(Id_t), Page(1)),
                PyText("scratch/service_manual_long/page_1/tables/t.png"), PyNone),
      TableReference("q1", PyStr(Id_t), Page(11)),
      TableReference("q2", PyStr(Id_t1), Page(1)),
      TableReference("q1", PyStr(Id_t), PyNone),
      TableReference("q2", PyStr(Id_t), PyNone),
      TableReference("q1", PyStr(Id_t), Page(0)) }

DedupFigurePool ==
    { FigureReference("q1", PyStr(Id_f), Page(1)),
      WithPng(FigureReference("q2", PyStr(Id_f), Page(1)),
              PyText("scratch/service_manual_long/page_1/images/f.png")),
      FigureReference("q2", PyStr(Id_f), PyNone),
      FigureReference("q1", PyStr(Id_f1), Page(1)) }

-----------------------------------------------------------------------------
(* SpecDedup: deduplicate_references as a function of its argument.        *)

IdleDedup ==
    /\ dd_pc = "idle"
    /\ dd_in = EmptyReferences
    /\ dd_once = EmptyReferences
    /\ dd_twice = EmptyReferences

IdleCorrelate ==
    /\ co_pc = "idle"
    /\ co_files = {}
    /\ co_in = EmptyReferences
    /\ co_refs = EmptyReferences

IdleExtract ==
    /\ ex_pc = "idle"
    /\ ex_points = <<>>
    /\ ex_files = {}
    /\ ex_n = 0
    /\ ex_k = 0
    /\ ex_log = <<>>
    /\ all_tables = <<>>
    /\ all_figures = <<>>
    /\ ex_refs = EmptyReferences
    /\ ex_out = EmptyReferences
    /\ ex_exc = "none"

IdleFormat ==
    /\ fm_pc = "idle"
    /\ fm_results = <<>>
    /\ fm_base = PyNone
    /\ fm_fusion = PyNone

IdleRetrieve ==
    /\ rt_pc = "idle"
    /\ rt_tag = "none"
    /\ rt_client = FALSE
    /\ rt_retriever = "none"
    /\ rt_args = <<>>
    /\ rt_store = <<>>
    /\ rt_query = PyNone
    /\ rt_points = <<>>
    /\ rt_out = <<>>
    /\ rt_exc = "none"

IdleService ==
    /\ sv_pc = "idle"
    /\ sv_strategy = FALSE
    /\ sv_env = <<>>
    /\ sv_i = 0
    /\ sv_results = <<>>
    /\ sv_calls = <<>>
    /\ sv_out = PyNone
    /\ sv_exc = "none"

IdleConnection ==
    /\ cm_pc = "idle"
    /\ cm_instance = 0
    /\ cm_client = 0
    /\ cm_made = 0
    /\ cm_log = <<>>

IdleIndexer ==
    /\ ix_pc = "idle"
    /\ ix_pages = <<>>
    /\ ix_batch_size = 0
    /\ ix_full = FALSE
    /\ ix_i = 0
    /\ ix_ids = <<>>
    /\ ix_documents = <<>>
    /\ ix_metadata = <<>>
    /\ ix_processed = 0
    /\ ix_attempts = <<>>
    /\ ix_failed = <<>>
    /\ ix_upserted = <<>>

IdlePipeline ==
    /\ pd_pc = "idle"
    /\ pd_args = <<>>
    /\ pd_env = <<>>
    /\ pd_results = <<>>
    /\ pd_calls = <<>>
    /\ pd_exc = "none"

IdleIngestion == IdleConnection /\ IdleIndexer /\ IdlePipeline

IdleOthers == IdleFormat /\ IdleRetrieve /\ IdleService /\ IdleIngestion

IdleCore == IdleFormat /\ IdleRetrieve /\ IdleService

IdleReferences == IdleDedup /\ IdleCorrelate /\ IdleExtract

InitDedup ==
    /\ dd_pc = "start"
    /\ \E nt \in 0..MaxTables, nf \in 0..MaxFigures :
          \E ts \in [1..nt -> DedupTablePool], fs \in [1..nf -> DedupFigurePool] :
             dd_in = References(ts, fs)
    /\ dd_once = EmptyReferences
    /\ dd_twice = EmptyReferences
    /\ IdleCorrelate
    /\ IdleExtract
    /\ IdleOthers

DedupOnce ==
    /\ dd_pc = "start"
    /\ dd_once' = deduplicate_references(dd_in)
    /\ dd_pc' = "once"
    /\ UNCHANGED <<dd_in, dd_twice, coVars, exVars, otherVars>>

DedupTwice ==
    /\ dd_pc = "once"
    /\ dd_twice' = deduplicate_references(dd_once)
    /\ dd_pc' = "twice"
    /\ UNCHANGED <<dd_in, dd_once, coVars, exVars, otherVars>>

NextDedup == DedupOnce \/ DedupTwice

SpecDedup == InitDedup /\ [][NextDedup]_vars

-----------------------------------------------------------------------------
(* Claims about deduplication.                                             *)

TablePair(t) == <<t.element_id, t.page_number>>
FigurePair(f) == <<f.label, f.page_number>>

\* the least index of xs whose pair (under P) is p
FirstIndex(xs, P(_), p) ==
    CHOOSE i \in 1..Len(xs) :
        /\ P(xs[i]) = p
        /\ \A h \in 1..(i - 1) : P(xs[h]) # p

\* out is the stable first-occurrence filter of inp under the pair P
StableFirstOccurrence(inp, out, P(_)) ==
    /\ \A i \in 1..Len(inp) :
          /\ Cardinality({o \in 1..Len(out) : P(out[o]) = P(inp[i])}) = 1
          /\ \E o \in 1..Len(out) : out[o] = inp[FirstIndex(inp, P, P(inp[i]))]
    /\ \A o \in 1..Len(out) : \E i \in 1..Len(inp) : P(out[o]) = P(inp[i])
    /\ \A o1, o2 \in 1..Len(out) :
          o1 < o2 => FirstIndex(inp, P, P(out[o1])) < FirstIndex(inp, P, P(out[o2]))

\* C1: deduplicate_references keeps, for every distinct (element_id, page_number)
\* pair of the tables and every distinct (label, page_number) pair of the
\* figures, exactly one reference, the earliest input occurrence with all its
\* fields, in input order, and never collapses references whose pairs differ.
C1_StableFirstOccurrence ==
    dd_pc \in {"once", "twice"} =>
        /\ StableFirstOccurrence(dd_in.tables, dd_once.tables, TablePair)
        /\ StableFirstOccurrence(dd_in.figures, dd_once.figures, FigurePair)

\* a pair met twice under different sub-questions around a different pair whose
\* key text shares a prefix with it, both pairs surviving
C1_Witness ==
    /\ dd_pc = "once"
    /\ \E i, j, k \in 1..Len(dd_in.tables) :
          /\ i < j /\ j < k
          /\ TablePair(dd_in.tables[i]) = TablePair(dd_in.tables[k])
          /\ dd_in.tables[i].sub_question # dd_in.tables[k].sub_question
          /\ TablePair(dd_in.tables[j]) # TablePair(dd_in.tables[i])
          /\ dd_in.tables[j].element_id = dd_in.tables[i].element_id
    /\ dd_once.tables = <<dd_in.tables[1], dd_in.tables[2]>>
    /\ Len(dd_once.figures) < Len(dd_in.figures)

\* C2: deduplicating an already deduplicated References value changes nothing:
\* the second result equals the first, element for element and in order.
C2_Idempotent ==
    dd_pc = "twice" => dd_twice = dd_once

\* the first pass removed a duplicate, among references with page_number None
C2_Witness ==
    /\ dd_pc = "twice"
    /\ Len(dd_once.tables) >= 2
    /\ Len(dd_once.tables) < Len(dd_in.tables)
    /\ \E i \in 1..Len(dd_in.tables) : dd_in.tables[i].page_number = PyNone
    /\ Len(dd_once.figures) < Len(dd_in.figures)

-----------------------------------------------------------------------------
(* correlate_references_with_files                                         *)

\* scratch_path's default value
ScratchPath == "scratch/service_manual_long"

\* what a call that may raise gives back: exc names the exception that left
\* it, "none" when it returned value
Answer(value) == [exc |-> "none", value |-> value]
OSError == [exc |-> "OSError", value |-> FALSE]

RECURSIVE Components(_, _)
\* the components of a path text between its slashes, from index from on
Components(path, from) ==
    LET slashes == {i \in from..Len(path) : SubSeq(path, i, i) = "/"}
        next == IF slashes = {} THEN Len(path) + 1
                ELSE CHOOSE i \in slashes : \A j \in slashes : i <= j
    IN (IF from < next THEN <<SubSeq(path, from, next - 1)>> ELSE <<>>)
           \o (IF slashes = {} THEN <<>> ELSE Components(path, next + 1))

\* the working directory of the process, by its components below the root
WorkingDirectory == <<"work">>

\* directories of the root that are there wherever the program runs
SystemDirectories == {"/tmp/", "/usr/", "/etc/", "/var/"}

\* A disk is a set of names: a file below the working directory has its path
\* from there for its name, any other file its absolute path, and a name that
\* ends with a slash is a directory, which may be empty.  NameOf is the name
\* of what lies at the components parts below the root.
NameOf(parts) ==
    LET n == Len(WorkingDirectory) IN
    IF Len(parts) >= n /\ SubSeq(parts, 1, n) = WorkingDirectory
    THEN JoinWith("/", SubSeq(parts, n + 1, Len(parts)))
    ELSE "/" \o JoinWith("/", parts)

\* there is a directory at parts: the root, the working directory and the
\* directories above it, and every directory that is named or holds a file
IsDirectory(parts, files) ==
    \/ /\ Len(parts) <= Len(WorkingDirectory)
       /\ SubSeq(WorkingDirectory, 1, Len(parts)) = parts
    \/ LET text == NameOf(parts) \o "/" IN
       \E f \in files : Len(f) >= Len(text) /\ SubSeq(f, 1, Len(text)) = text

RECURSIVE Lookup(_, _, _)
\* the walk of stat() along the components parts from the directory dir.
\* A name longer than a file name may be, looked up in a directory, is an
\* error pathlib does not take for an answer; a missing name and a file where
\* a directory is needed are the answer no.
Lookup(parts, dir, files) ==
    IF parts = <<>> THEN Answer(TRUE)
    ELSE IF Head(parts) = ".."
    THEN Lookup(Tail(parts), SubSeq(dir, 1, Len(dir) - 1), files)
    ELSE IF Head(parts) = "." THEN Lookup(Tail(parts), dir, files)
    ELSE IF Len(Head(parts)) > 255 THEN OSError
    ELSE IF IsDirectory(Append(dir, Head(parts)), files)
    THEN Lookup(Tail(parts), Append(dir, Head(parts)), files)
    ELSE Answer(Tail(parts) = <<>> /\ NameOf(Append(dir, Head(parts))) \in files)

\* the directory a path text is read from: the root for an absolute path
StartOf(path) == IF SubSeq(path, 1, 1) = "/" THEN <<>> ELSE WorkingDirectory

\* Path.exists() that answers yes for every path
ExistsAlways(path, files) == Answer(TRUE)

\* Path.exists(): stat() of the path text, read from the working directory;
\* a text of 4096 characters or more is too long a name as a whole
Exists(path, files) ==
    IF Len(path) >= 4096 THEN OSError
    ELSE Lookup(Components(path, 1), StartOf(path), files \cup SystemDirectories)

\* page_dir = scratch_dir / f"page_{page_number}"
PageDir(page_number) == ScratchPath \o "/page_" \o Format(page_number)

\* a component pathlib keeps: an empty one and "." are dropped
IsPathPart(part) == part # "" /\ part # "."

\* str(base / f"{prefix}{name}{suffix}"): pathlib splits the file name at its
\* slashes and drops the empty and "." components; a file name that begins
\* with a slash is an absolute path and replaces base (two leading slashes
\* are kept, three or more are one)
PathUnder(base, prefix, name, suffix) ==
    LET parts == SplitOn(name, "/", <<>>)
        n == Len(parts)
        texts == [k \in 1..n |-> (IF k = 1 THEN prefix ELSE "") \o Join(parts[k])
                                     \o (IF k = n THEN suffix ELSE "")]
        kept == SelectSeq(texts, IsPathPart)
        leading == IF prefix # "" THEN 0
                   ELSE Cardinality({k \in 1..(n - 1) : \A j \in 1..k : parts[j] = <<>>})
    IN IF leading = 0
       THEN IF kept = <<>> THEN base ELSE base \o "/" \o JoinWith("/", kept)
       ELSE (IF leading = 2 THEN "//" ELSE "/") \o JoinWith("/", kept)

\* extractor.py:27
TablePngPath(table) ==
    PathUnder(PageDir(table.page_number) \o "/tables", "", table.element_id.s, ".png")

\* extractor.py:28
TableHtmlPath(table) ==
    PathUnder(PageDir(table.page_number) \o "/tables", "", table.element_id.s, ".html")

\* label.split('-')[-1]: the characters after the last '-', acc holding the
\* characters read since the last '-' seen
LastSegment(chars, acc) ==
    LET seps == {i \in 1..Len(chars) : chars[i] = "-"}
        last == CHOOSE i \in seps : \A j \in seps : j <= i
    IN IF seps = {} THEN acc \o chars
       ELSE SubSeq(chars, last + 1, Len(chars))

\* possible_paths, extractor.py:40-45
FigurePaths(figure) ==
    << PathUnder(PageDir(figure.page_number) \o "/images", "", figure.label.s, ".png"),
       PathUnder(PageDir(figure.page_number) \o "/images",
                 "image-" \o Format(figure.page_number) \o "-",
                 LastSegment(figure.label.s, <<>>), ".png") >>

\* the loop body of the first for loop: [exc, ref], ref the table as the
\* body leaves it, which is with png_file set when the second exists() raises
CorrelateTable(table, files) ==
    IF Truthy(table.page_number) /\ Truthy(table.element_id)
    THEN LET png == Exists(TablePngPath(table), files)
             with_png == IF png.value
                         THEN [table EXCEPT !.png_file = PyText(TablePngPath(table))]
                         ELSE table
             html == Exists(TableHtmlPath(table), files)
         IN IF png.exc # "none" THEN [exc |-> png.exc, ref |-> table]
            ELSE IF html.exc # "none" THEN [exc |-> html.exc, ref |-> with_png]
            ELSE [exc |-> "none",
                  ref |-> IF html.value
                          THEN [with_png EXCEPT !.html_file = PyText(TableHtmlPath(table))]
                          ELSE with_png]
    ELSE [exc |-> "none", ref |-> table]

RECURSIVE FirstExisting(_, _, _)
\* the loop over possible_paths, leaving at the first path that exists:
\* [exc, value], value the png_file the loop leaves
FirstExisting(paths, files, png_file) ==
    IF paths = <<>> THEN Answer(png_file)
    ELSE LET found == Exists(Head(paths), files)
         IN IF found.exc # "none" THEN [exc |-> found.exc, value |-> png_file]
            ELSE IF found.value THEN Answer(PyText(Head(paths)))
            ELSE FirstExisting(Tail(paths), files, png_file)

\* the loop body of the second for loop: [exc, ref]
CorrelateFigure(figure, files) ==
    IF Truthy(figure.page_number) /\ Truthy(figure.label)
    THEN LET found == FirstExisting(FigurePaths(figure), files, figure.png_file)
         IN [exc |-> found.exc, ref |-> [figure EXCEPT !.png_file = found.value]]
    ELSE [exc |-> "none", ref |-> figure]

\* a for loop over refs with the body given by its outcomes, one per
\* reference: the loop ends at the first body that raises, the references
\* behind it untouched
LoopOver(refs, outcomes) ==
    LET raising == {i \in 1..Len(refs) : outcomes[i].exc # "none"}
        last == IF raising = {} THEN Len(refs)
                ELSE CHOOSE i \in raising : \A j \in raising : i <= j
    IN [exc |-> IF raising = {} THEN "none" ELSE outcomes[last].exc,
        refs |-> [i \in 1..Len(refs) |-> IF i <= last THEN outcomes[i].ref ELSE refs[i]]]

\* extractor.py:24-33: [exc, references]
CorrelateTablesOf(references, files) ==
    LET loop == LoopOver(references.tables,
                         [i \in 1..Len(references.tables) |->
                             CorrelateTable(references.tables[i], files)])
    IN [exc |-> loop.exc, references |-> [references EXCEPT !.tables = loop.refs]]

\* extractor.py:36-50: [exc, references]
CorrelateFiguresOf(references, files) ==
    LET loop == LoopOver(references.figures,
                         [i \in 1..Len(references.figures) |->
                             CorrelateFigure(references.figures[i], files)])
    IN [exc |-> loop.exc, references |-> [references EXCEPT !.figures = loop.refs]]

\* [exc, references]: the references as the call leaves them, returned when
\* exc is "none"
correlate_references_with_files(references, files) ==
    LET tables == CorrelateTablesOf(references, files)
    IN IF tables.exc # "none" THEN tables
       ELSE CorrelateFiguresOf(tables.references, files)

-----------------------------------------------------------------------------
(* SpecCorrelate: correlate_references_with_files against a set of files.  *)

Id_figure_9_2 == <<"f", "i", "g", "u", "r", "e", "-", "9", "-", "2">>
Id_image_9_2 == <<"i", "m", "a", "g", "e", "-", "9", "-", "2">>

\* "../tables/./t" names the same file as "t"
Id_up_t == <<".", ".", "/", "t", "a", "b", "l", "e", "s", "/", ".", "/", "t">>

\* an element_id that is an absolute path: the file it names is /tmp/t.png
Id_tmp_t == <<"/", "t", "m", "p", "/", "t">>

\* an element_id whose PNG file name is as long as a file name may be, and
\* whose HTML file name is one character longer
Id_long == [i \in 1..251 |-> "a"]

Id_tmp_long == <<"/", "t", "m", "p", "/">> \o Id_long

\* references as the extractors build them: file fields None
CorrelateTablePool ==
    { TableReference("q1", PyStr(Id_t), Page(1)),
      TableReference("q2", PyStr(Id_up_t), Page(1)),
      TableReference("q2", PyStr(Id_tmp_t), Page(1)),
      TableReference("q2", PyStr(Id_long), Page(1)),
      TableReference("q2", PyStr(Id_tmp_long), Page(1)),
      TableReference("q1", PyStr(Id_t), Page(0)),
      TableReference("q2", PyStr(Id_t), PyNone) }

CorrelateFigurePool ==
    { FigureReference("q1", PyStr(Id_figure_9_2), Page(9)),
      FigureReference("q2", PyStr(Id_image_9_2), Page(9)),
      FigureReference("q1", PyStr(Id_f), Page(9)),
      FigureReference("q1", PyStr(Id_f), Page(0)),
      FigureReference("q2", PyStr(Id_f), PyNone) }

\* files that may exist, under the scratch directory and outside it
TableFiles ==
    { "scratch/service_manual_long/page_1/tables/t.png",
      "scratch/service_manual_long/page_1/tables/t.html",
      "scratch/service_manual_long/page_0/tables/t.png",
      "/tmp/t.png" }

FigureFiles ==
    { "scratch/service_manual_long/page_9/images/figure-9-2.png",
      "scratch/service_manual_long/page_9/images/image-9-2.png",
      "scratch/service_manual_long/page_9/images/image-9-f.png",
      "scratch/service_manual_long/page_0/images/f.png" }

\* the disks: the table files are probed by the first loop alone and the
\* figure files by the second, so every set of the ones is taken with none
\* and with all of the others
Disks ==
    {tf \cup ff : tf \in SUBSET TableFiles, ff \in {{}, FigureFiles}}
        \cup {tf \cup ff : tf \in {{}, TableFiles}, ff \in SUBSET FigureFiles}

InitCorrelate ==
    /\ co_pc = "start"
    /\ co_files \in Disks
    /\ \E nt \in 0..MaxCoRefs :
          \E nf \in 0..(MaxCoRefs - nt) :
             \E ts \in [1..nt -> CorrelateTablePool], fs \in [1..nf -> CorrelateFigurePool] :
                co_in = References(ts, fs)
    /\ co_refs = co_in
    /\ IdleDedup
    /\ IdleExtract
    /\ IdleOthers

\* extractor.py:23-33
CorrelateTables ==
    /\ co_pc = "start"
    /\ \E ret \in {CorrelateTablesOf(co_refs, co_files)} :
          /\ co_refs' = ret.references
          /\ co_pc' = IF ret.exc = "none" THEN "tables" ELSE "raised"
    /\ UNCHANGED <<co_files, co_in, ddVars, exVars, otherVars>>

\* extractor.py:35-52
CorrelateFigures ==
    /\ co_pc = "tables"
    /\ \E ret \in {CorrelateFiguresOf(co_refs, co_files)} :
          /\ co_refs' = ret.references
          /\ co_pc' = IF ret.exc = "none" THEN "done" ELSE "raised"
    /\ UNCHANGED <<co_files, co_in, ddVars, exVars, otherVars>>

NextCorrelate == CorrelateTables \/ CorrelateFigures

SpecCorrelate == InitCorrelate /\ [][NextCorrelate]_vars

-----------------------------------------------------------------------------
(* Claims about correlation.                                               *)

RECURSIVE Normal(_, _)
\* the place a path leads to from the directory dir, ".." read as the
\* directory above
Normal(parts, dir) ==
    IF parts = <<>> THEN dir
    ELSE IF Head(parts) = ".." THEN Normal(Tail(parts), SubSeq(dir, 1, Len(dir) - 1))
    ELSE IF Head(parts) = "." THEN Normal(Tail(parts), dir)
    ELSE Normal(Tail(parts), Append(dir, Head(parts)))

\* the file a path names is on the disk
OnDisk(path) == NameOf(Normal(Components(path, 1), StartOf(path))) \in co_files

\* a file field is None, or it is the reference's own path and the file that
\* path names is on the disk
OwnFileOrNone(v, path) == v = PyNone \/ (v = PyText(path) /\ OnDisk(path))

\* C8: correlation keeps the number and order of the references and their
\* sub_question, element_id / label and page_number; a file field is set only
\* to the reference's own path and only when that file exists, so that a
\* reference with no file on disk has its file fields left None.
C8_OnlyFileFieldsSet ==
    /\ Len(co_refs.tables) = Len(co_in.tables)
    /\ Len(co_refs.figures) = Len(co_in.figures)
    /\ \A i \in 1..Len(co_in.tables) :
          /\ co_refs.tables[i].sub_question = co_in.tables[i].sub_question
          /\ co_refs.tables[i].element_id = co_in.tables[i].element_id
          /\ co_refs.tables[i].page_number = co_in.tables[i].page_number
          /\ OwnFileOrNone(co_refs.tables[i].png_file, TablePngPath(co_in.tables[i]))
          /\ OwnFileOrNone(co_refs.tables[i].html_file, TableHtmlPath(co_in.tables[i]))
    /\ \A i \in 1..Len(co_in.figures) :
          /\ co_refs.figures[i].sub_question = co_in.figures[i].sub_question
          /\ co_refs.figures[i].label = co_in.figures[i].label
          /\ co_refs.figures[i].page_number = co_in.figures[i].page_number
          /\ \E k \in 1..2 :
                OwnFileOrNone(co_refs.figures[i].png_file,
                              FigurePaths(co_in.figures[i])[k])

\* a table whose file lies outside the working directory enriched with its
\* PNG only, next to a figure on a real page that has no file on disk and
\* stays un-enriched
C8_Witness ==
    /\ co_pc = "done"
    /\ \E i \in 1..Len(co_refs.tables) :
          /\ co_refs.tables[i].element_id = PyStr(Id_tmp_t)
          /\ co_refs.tables[i].png_file # PyNone
          /\ co_refs.tables[i].html_file = PyNone
    /\ \E i \in 1..Len(co_refs.figures) :
          /\ Truthy(co_refs.figures[i].page_number)
          /\ co_refs.figures[i].png_file = PyNone
    /\ co_files # {}

\* the claim's "has the field": a page_number that is an integer, an
\* element_id / label that is not empty
HasPage(ref) == ref.page_number.ty = "int"

FileIfExists(path) == IF OnDisk(path) THEN PyText(path) ELSE PyNone

\* C9: every table reference with a page_number (any integer) and an
\* element_id gets png_file and html_file set to exactly those of
\* page_{P}/tables/{E}.png and page_{P}/tables/{E}.html that exist; a table
\* reference lacking either field keeps both file fields None.
C9_TablesProbed ==
    co_pc \in {"tables", "done"} =>
        \A i \in 1..Len(co_in.tables) :
            LET t == co_in.tables[i]
                r == co_refs.tables[i]
            IN  IF HasPage(t) /\ t.element_id.s # <<>>
                THEN /\ r.png_file = FileIfExists(TablePngPath(t))
                     /\ r.html_file = FileIfExists(TableHtmlPath(t))
                ELSE /\ r.png_file = PyNone
                     /\ r.html_file = PyNone

\* what the code does for tables: the claim with page 0 counted as no page
C9_TablesProbedUnlessPageZero ==
    co_pc \in {"tables", "done"} =>
        \A i \in 1..Len(co_in.tables) :
            LET t == co_in.tables[i]
                r == co_refs.tables[i]
            IN  IF HasPage(t) /\ t.page_number.n # 0 /\ t.element_id.s # <<>>
                THEN /\ r.png_file = FileIfExists(TablePngPath(t))
                     /\ r.html_file = FileIfExists(TableHtmlPath(t))
                ELSE /\ r.png_file = PyNone
                     /\ r.html_file = PyNone

\* the claim's two paths, written out from its words
RawLabelPath(f) ==
    ScratchPath \o "/page_" \o ToString(f.page_number.n) \o "/images/"
        \o Join(f.label.s) \o ".png"

FallbackPath(f) ==
    ScratchPath \o "/page_" \o ToString(f.page_number.n) \o "/images/image-"
        \o ToString(f.page_number.n) \o "-" \o Join(LastSegment(f.label.s, <<>>)) \o ".png"

FirstOfTwo(f) ==
    IF RawLabelPath(f) \in co_files THEN PyText(RawLabelPath(f))
    ELSE IF FallbackPath(f) \in co_files THEN PyText(FallbackPath(f))
    ELSE PyNone

\* C10: every figure reference with a page_number P and a label L gets png_file
\* set to page_{P}/images/{L}.png when that exists, else to
\* page_{P}/images/image-{P}-{suffix}.png when that exists, else None.
C10_FigureFirstExisting ==
    co_pc = "done" =>
        \A i \in 1..Len(co_in.figures) :
            LET f == co_in.figures[i]
            IN  (HasPage(f) /\ f.label.s # <<>>) =>
                    co_refs.figures[i].png_file = FirstOfTwo(f)

\* what the code does for figures: the claim for every page other than 0
C10_FigureFirstExistingUnlessPageZero ==
    co_pc = "done" =>
        \A i \in 1..Len(co_in.figures) :
            LET f == co_in.figures[i]
            IN  (HasPage(f) /\ f.page_number.n # 0 /\ f.label.s # <<>>) =>
                    co_refs.figures[i].png_file = FirstOfTwo(f)

-----------------------------------------------------------------------------
(* The five extractors.  An extract call returns [exc, tables, figures]:   *)
(* exc names the exception that left the call, "none" when it returned.    *)

Str_table == <<"t", "a", "b", "l", "e">>
Str_figure == <<"f", "i", "g", "u", "r", "e">>
Str_text == <<"t", "e", "x", "t">>
Str_None == <<"N", "o", "n", "e">>

Returned(tables, figures) == [exc |-> "none", tables |-> tables, figures |-> figures]
Raised(exc) == [exc |-> exc, tables |-> <<>>, figures |-> <<>>]

\* a validity test that forgets the literal "None"
IsValidIdTruthyOnly(identifier) == Truthy(identifier)

\* ContentElementsExtractor._is_valid_id: identifier and identifier != "None"
is_valid_id(identifier) == Truthy(identifier) /\ identifier # PyStr(Str_None)

\* a page number that is never read from the result
ResultPageDropped(result) == PyNone

\* result.get("page_number")
ResultPage(result) == Get(result, "page_number", PyNone)

\* obj.get: only a mapping has it
HasGet(obj) == obj.ty = "dict"

\* `for x in v`: the items visited, or the TypeError of a value that is not
\* iterable; of a dict, the empty one
Iterate(v) ==
    CASE v.ty = "list" -> [exc |-> "none", items |-> v.items]
      [] v.ty = "str" -> [exc |-> "none", items |-> [i \in 1..Len(v.s) |-> PyStr(<<v.s[i]>>)]]
      [] v.ty = "dict" /\ DOMAIN v.d = {} -> [exc |-> "none", items |-> <<>>]
      [] v.ty \in {"none", "int", "bool"} -> [exc |-> "TypeError", items |-> <<>>]

RECURSIVE ContentElementsLoop(_, _, _, _, _)
\* content_elements.py:20-43
ContentElementsLoop(items, result, sub_question, tables, figures) ==
    IF items = <<>> THEN Returned(tables, figures)
    ELSE LET element == Head(items) IN
         IF ~HasGet(element) THEN Raised("AttributeError")
         ELSE LET element_type == Get(element, "type", PyNone) IN
              IF element_type = PyStr(Str_table)
              THEN LET element_id == Get(element, "element_id", PyNone) IN
                   IF is_valid_id(element_id)
                   THEN IF Rejected(TableReference(sub_question, element_id, ResultPage(result)))
                        THEN Raised("ValidationError")
                        ELSE ContentElementsLoop(Tail(items), result, sub_question,
                                 Append(tables, TableReference(sub_question, element_id,
                                                               ResultPage(result))),
                                 figures)
                   ELSE ContentElementsLoop(Tail(items), result, sub_question, tables, figures)
              ELSE IF element_type = PyStr(Str_figure)
              THEN LET figure_id == Get(element, "figure_id", PyNone) IN
                   IF is_valid_id(figure_id)
                   THEN IF Rejected(FigureReference(sub_question, figure_id, ResultPage(result)))
                        THEN Raised("ValidationError")
                        ELSE ContentElementsLoop(Tail(items), result, sub_question, tables,
                                 Append(figures, FigureReference(sub_question, figure_id,
                                                                 ResultPage(result))))
                   ELSE ContentElementsLoop(Tail(items), result, sub_question, tables, figures)
              ELSE ContentElementsLoop(Tail(items), result, sub_question, tables, figures)

\* ContentElementsExtractor.extract
ContentElementsExtract(result, sub_question) ==
    LET content_elements == Iterate(Get(result, "content_elements", PyList(<<>>))) IN
    IF content_elements.exc # "none" THEN Raised(content_elements.exc)
    ELSE ContentElementsLoop(content_elements.items, result, sub_question, <<>>, <<>>)

RECURSIVE TableIdLoop(_, _, _, _)
\* flattened_tables.py:20-29 and table_metadata.py:20-29
TableIdLoop(items, result, sub_question, tables) ==
    IF items = <<>> THEN Returned(tables, <<>>)
    ELSE LET table == Head(items) IN
         IF ~HasGet(table) THEN Raised("AttributeError")
         ELSE LET table_id == Get(table, "table_id", PyNone) IN
              IF is_valid_id(table_id)
              THEN IF Rejected(TableReference(sub_question, table_id, ResultPage(result)))
                   THEN Raised("ValidationError")
                   ELSE TableIdLoop(Tail(items), result, sub_question,
                            Append(tables, TableReference(sub_question, table_id,
                                                          ResultPage(result))))
              ELSE TableIdLoop(Tail(items), result, sub_question, tables)

\* FlattenedTablesExtractor.extract
FlattenedTablesExtract(result, sub_question) ==
    LET flattened_tables == Iterate(Get(result, "flattened_tables", PyList(<<>>))) IN
    IF flattened_tables.exc # "none" THEN Raised(flattened_tables.exc)
    ELSE TableIdLoop(flattened_tables.items, result, sub_question, <<>>)

\* TableMetadataExtractor.extract
TableMetadataExtract(result, sub_question) ==
    LET table_metadata == Iterate(Get(result, "table_metadata", PyList(<<>>))) IN
    IF table_metadata.exc # "none" THEN Raised(table_metadata.exc)
    ELSE TableIdLoop(table_metadata.items, result, sub_question, <<>>)

RECURSIVE SummaryFiguresLoop(_, _, _, _)
\* content_summary.py:21-29
SummaryFiguresLoop(items, result, sub_question, figures) ==
    IF items = <<>> THEN Returned(<<>>, figures)
    ELSE LET figure == Head(items) IN
         IF is_valid_id(figure)
         THEN IF Rejected(FigureReference(sub_question, figure, ResultPage(result)))
              THEN Raised("ValidationError")
              ELSE SummaryFiguresLoop(Tail(items), result, sub_question,
                       Append(figures, FigureReference(sub_question, figure,
                                                       ResultPage(result))))
         ELSE SummaryFiguresLoop(Tail(items), result, sub_question, figures)

\* ContentSummaryExtractor.extract
ContentSummaryExtract(result, sub_question) ==
    LET content_summary == Get(result, "content_summary", PyDict(<<>>)) IN
    IF ~HasGet(content_summary) THEN Raised("AttributeError")
    ELSE LET summary_figures == Iterate(Get(content_summary, "figures", PyList(<<>>))) IN
         IF summary_figures.exc # "none" THEN Raised(summary_figures.exc)
         ELSE SummaryFiguresLoop(summary_figures.items, result, sub_question, <<>>)

RECURSIVE RelatedFiguresLoop(_, _, _, _)
\* within_page_relations.py:25-33
RelatedFiguresLoop(items, result, sub_question, figures) ==
    IF items = <<>> THEN Returned(<<>>, figures)
    ELSE LET figure == Head(items) IN
         IF ~HasGet(figure) THEN Raised("AttributeError")
         ELSE LET label == Get(figure, "label", PyNone) IN
              IF is_valid_id(label)
              THEN IF Rejected(FigureReference(sub_question, label, ResultPage(result)))
                   THEN Raised("ValidationError")
                   ELSE RelatedFiguresLoop(Tail(items), result, sub_question,
                            Append(figures, FigureReference(sub_question, label,
                                                            ResultPage(result))))
              ELSE RelatedFiguresLoop(Tail(items), result, sub_question, figures)

RECURSIVE WithinPageLoop(_, _, _, _)
\* within_page_relations.py:21-33
WithinPageLoop(items, result, sub_question, figures) ==
    IF items = <<>> THEN Returned(<<>>, figures)
    ELSE LET element == Head(items) IN
         IF ~HasGet(element) THEN Raised("AttributeError")
         ELSE LET within_page_relations ==
                      Get(element, "within_page_relations", PyDict(<<>>)) IN
              IF ~HasGet(within_page_relations) THEN Raised("AttributeError")
              ELSE LET related_figures ==
                           Iterate(Get(within_page_relations, "related_figures",
                                       PyList(<<>>))) IN
                   IF related_figures.exc # "none" THEN Raised(related_figures.exc)
                   ELSE LET inner == RelatedFiguresLoop(related_figures.items, result,
                                                        sub_question, figures) IN
                        IF inner.exc # "none" THEN inner
                        ELSE WithinPageLoop(Tail(items), result, sub_question,
                                            inner.figures)

\* WithinPageRelationsExtractor.extract
WithinPageRelationsExtract(result, sub_question) ==
    LET content_elements == Iterate(Get(result, "content_elements", PyList(<<>>))) IN
    IF content_elements.exc # "none" THEN Raised(content_elements.exc)
    ELSE WithinPageLoop(content_elements.items, result, sub_question, <<>>)

-----------------------------------------------------------------------------
(* extract_tables_and_figures_references                                   *)

\* extractor.py:91-97
Extractors ==
    <<"ContentElements", "FlattenedTables", "TableMetadata", "ContentSummary",
      "WithinPageRelations">>

\* extractor.extract(result, sub_question), by the class of the extractor
Extract(name, result, sub_question) ==
    CASE name = "ContentElements" -> ContentElementsExtract(result, sub_question)
      [] name = "FlattenedTables" -> FlattenedTablesExtract(result, sub_question)
      [] name = "TableMetadata" -> TableMetadataExtract(result, sub_question)
      [] name = "ContentSummary" -> ContentSummaryExtract(result, sub_question)
      [] name = "WithinPageRelations" -> WithinPageRelationsExtract(result, sub_question)

RECURSIVE Visits(_)
\* the (sub_question, result) pairs in the order the two nested for loops of
\* extractor.py:103-104 visit them
Visits(points) ==
    IF points = <<>> THEN <<>>
    ELSE [j \in 1..Len(Head(points).results) |->
             [sub_question |-> Head(points).sub_question,
              result |-> Head(points).results[j]]]
         \o Visits(Tail(points))

\* a running list overwritten by what the extractor returned
ExtendReplaces(running, returned) == returned

\* list.extend, extractor.py:108-109
Extend(running, returned) == running \o returned

\* extractor.py:121-124: model_dump of every reference, field for field
Dump(references) ==
    [tables |-> [i \in 1..Len(references.tables) |-> references.tables[i]],
     figures |-> [i \in 1..Len(references.figures) |-> references.figures[i]]]

\* an extractor that takes what it reads out of the result
ResultConsumed(result) == PyDict(<<>>)

\* what extractor.extract leaves of the result it is given: every extractor
\* reads it with .get and builds new reference objects
ResultAfterExtract(result) == result

RECURSIVE WithVisit(_, _, _)
\* the mapping with the result of the n-th visit replaced
WithVisit(points, n, result) ==
    IF points = <<>> THEN <<>>
    ELSE IF n <= Len(Head(points).results)
    THEN <<[Head(points) EXCEPT !.results[n] = result]>> \o Tail(points)
    ELSE <<Head(points)>> \o WithVisit(Tail(points), n - Len(Head(points).results), result)

\* the effect of one pass of the body of the innermost loop,
\* extractor.py:107-109, for the extractor called name
ApplyExtractor(name) ==
    /\ ex_points' = WithVisit(ex_points, ex_n,
                              ResultAfterExtract(Visits(ex_points)[ex_n].result))
    /\ LET visit == Visits(ex_points)[ex_n]
           ret == Extract(name, visit.result, visit.sub_question)
       IN  IF ret.exc # "none"
           THEN /\ ex_pc' = "raised"
                /\ ex_exc' = ret.exc
                /\ UNCHANGED <<ex_n, ex_k, ex_log, all_tables, all_figures>>
           ELSE /\ all_tables' = Extend(all_tables, ret.tables)
                /\ all_figures' = Extend(all_figures, ret.figures)
                /\ ex_log' = Append(ex_log, [n |-> ex_n, extractor |-> name,
                                             tables |-> ret.tables,
                                             figures |-> ret.figures])
                /\ IF ex_k < Len(Extractors)
                   THEN /\ ex_k' = ex_k + 1
                        /\ ex_n' = ex_n
                        /\ ex_pc' = "extract"
                   ELSE /\ ex_k' = 1
                        /\ ex_n' = ex_n + 1
                        /\ ex_pc' = IF ex_n < Len(Visits(ex_points))
                                    THEN "extract" ELSE "correlate"
                /\ UNCHANGED ex_exc
    /\ UNCHANGED <<ex_files, ex_refs, ex_out, ddVars, coVars, otherVars>>

ApplyContentElements ==
    /\ ex_pc = "extract"
    /\ Extractors[ex_k] = "ContentElements"
    /\ ApplyExtractor("ContentElements")

ApplyFlattenedTables ==
    /\ ex_pc = "extract"
    /\ Extractors[ex_k] = "FlattenedTables"
    /\ ApplyExtractor("FlattenedTables")

ApplyTableMetadata ==
    /\ ex_pc = "extract"
    /\ Extractors[ex_k] = "TableMetadata"
    /\ ApplyExtractor("TableMetadata")

ApplyContentSummary ==
    /\ ex_pc = "extract"
    /\ Extractors[ex_k] = "ContentSummary"
    /\ ApplyExtractor("ContentSummary")

ApplyWithinPageRelations ==
    /\ ex_pc = "extract"
    /\ Extractors[ex_k] = "WithinPageRelations"
    /\ ApplyExtractor("WithinPageRelations")

\* extractor.py:112-115; References(tables=all_tables, figures=all_figures)
\* holds the reference objects of the two lists, and the correlation sets the
\* file fields on those objects, so the lists show them as well
ExtractCorrelate ==
    /\ ex_pc = "correlate"
    /\ \E ret \in {correlate_references_with_files(References(all_tables, all_figures),
                                                    ex_files)} :
          /\ ex_refs' = ret.references
          /\ all_tables' = ret.references.tables
          /\ all_figures' = ret.references.figures
          /\ ex_pc' = IF ret.exc = "none" THEN "dedup" ELSE "raised"
          /\ ex_exc' = ret.exc
    /\ UNCHANGED <<ex_points, ex_files, ex_n, ex_k, ex_log,
                   ex_out, ddVars, coVars, otherVars>>

\* extractor.py:118
ExtractDeduplicate ==
    /\ ex_pc = "dedup"
    /\ ex_refs' = deduplicate_references(ex_refs)
    /\ ex_pc' = "dump"
    /\ UNCHANGED <<ex_points, ex_files, ex_n, ex_k, ex_log, all_tables, all_figures,
                   ex_out, ex_exc, ddVars, coVars, otherVars>>

\* extractor.py:121-124
ExtractReturn ==
    /\ ex_pc = "dump"
    /\ ex_out' = Dump(ex_refs)
    /\ ex_pc' = "done"
    /\ UNCHANGED <<ex_points, ex_files, ex_n, ex_k, ex_log, all_tables, all_figures,
                   ex_refs, ex_exc, ddVars, coVars, otherVars>>

NextExtract ==
    \/ ApplyContentElements
    \/ ApplyFlattenedTables
    \/ ApplyTableMetadata
    \/ ApplyContentSummary
    \/ ApplyWithinPageRelations
    \/ ExtractCorrelate
    \/ ExtractDeduplicate
    \/ ExtractReturn

-----------------------------------------------------------------------------
(* Payloads the extraction specifications draw from.                       *)

Id_table_5_1 == <<"t", "a", "b", "l", "e", "-", "5", "-", "1">>

TableElement(id) == PyDict([type |-> PyStr(Str_table), element_id |-> id])
FigureElement(id) == PyDict([type |-> PyStr(Str_figure), figure_id |-> id])
TableEntry(id) == PyDict([table_id |-> id])
Related(labels) ==
    PyDict([related_figures |->
                PyList([i \in 1..Len(labels) |-> PyDict([label |-> labels[i]])])])

\* spec scenario 1: one table element on page 5
OneTableResult ==
    PyDict([page_number |-> Page(5),
            content_elements |-> PyList(<<TableElement(PyStr(Id_table_5_1))>>)])

\* a figure with related figures (one of them the literal "None"), and a text
\* element that carries an element_id
FigureResult ==
    PyDict([page_number |-> Page(5),
            content_elements |-> PyList(<<
                PyDict([type |-> PyStr(Str_figure), figure_id |-> PyStr(Id_f),
                        within_page_relations |->
                            Related(<<PyStr(Id_f), PyStr(Str_None), PyStr(Id_f1)>>)]),
                PyDict([type |-> PyStr(Str_text), element_id |-> PyStr(Id_t)])>>)])

\* no page number; identifiers "", None, "None" and absent next to valid ones
NoPageResult ==
    PyDict([flattened_tables |-> PyList(<<TableEntry(PyStr(Id_t)), TableEntry(PyStr(<<>>))>>),
            table_metadata |-> PyList(<<TableEntry(PyStr(Id_t)), TableEntry(PyNone),
                                        PyDict(<<>>), TableEntry(PyStr(Str_None))>>),
            content_summary |-> PyDict([figures |->
                PyList(<<PyStr(Id_f), PyStr(Str_None), PyStr(<<>>), PyNone>>)])])

\* valid identifiers in all five scanned locations
RichResult ==
    PyDict([page_number |-> Page(5),
            content_elements |-> PyList(<<
                PyDict([type |-> PyStr(Str_table), element_id |-> PyStr(Id_t),
                        within_page_relations |-> Related(<<PyStr(Id_f1)>>)]),
                FigureElement(PyStr(Id_f))>>),
            flattened_tables |-> PyList(<<TableEntry(PyStr(Id_t1))>>),
            table_metadata |-> PyList(<<TableEntry(PyStr(Id_t))>>),
            content_summary |-> PyDict([figures |-> PyList(<<PyStr(Id_f)>>)])])

\* page 0; table and figure elements none of which carries a valid identifier
NothingValidResult ==
    PyDict([page_number |-> Page(0),
            content_elements |-> PyList(<<
                TableElement(PyStr(Str_None)), FigureElement(PyNone),
                PyDict([type |-> PyStr(Str_table)]), FigureElement(PyStr(<<>>)),
                PyDict([element_id |-> PyStr(Id_t)])>>)])

\* the identifier of RichResult's table on another page
OtherPageResult ==
    PyDict([page_number |-> Page(7),
            content_elements |-> PyList(<<TableElement(PyStr(Id_t))>>),
            content_summary |-> PyDict(<<>>)])

ResultPool ==
    { OneTableResult, FigureResult, NoPageResult, RichResult, NothingValidResult,
      OtherPageResult }

\* a content_elements item that is not a mapping, after a well-formed one
NotAMappingResult ==
    PyDict([page_number |-> Page(5),
            content_elements |-> PyList(<<TableElement(PyStr(Id_t)), PyStr(Id_f)>>)])

\* content_summary present and null
NullSummaryResult ==
    PyDict([page_number |-> Page(5),
            content_elements |-> PyList(<<TableElement(PyStr(Id_t))>>),
            content_summary |-> PyNone])

\* within_page_relations present and null
NullRelationsResult ==
    PyDict([page_number |-> Page(5),
            content_elements |-> PyList(<<
                PyDict([type |-> PyStr(Str_figure), figure_id |-> PyStr(Id_f),
                        within_page_relations |-> PyNone])>>)])

\* an identifier that is an integer
IntegerIdResult ==
    PyDict([page_number |-> Page(5),
            flattened_tables |-> PyList(<<TableEntry(PyStr(Id_t)), TableEntry(PyInt(7))>>)])

\* a page_number that is text and not a numeral
TextPageResult ==
    PyDict([page_number |-> PyStr(<<"f", "i", "v", "e">>),
            content_elements |-> PyList(<<TableElement(PyStr(Id_t))>>)])

\* a page_number that is the numeral of 5 as text
NumeralPageResult ==
    PyDict([page_number |-> PyStr(<<"5">>),
            content_elements |-> PyList(<<TableElement(PyStr(Id_t1))>>)])

\* a page_number that is text with a decimal point and no digit behind it
PointPageResult ==
    PyDict([page_number |-> PyStr(<<"5", ".">>),
            content_elements |-> PyList(<<TableElement(PyStr(Id_t1))>>)])

\* an element_id whose HTML file name is longer than a file name may be
LongIdResult ==
    PyDict([page_number |-> Page(5),
            content_elements |-> PyList(<<TableElement(PyStr(Id_long))>>)])

MalformedPool ==
    { OneTableResult, RichResult,
      NotAMappingResult, NullSummaryResult, NullRelationsResult, IntegerIdResult,
      TextPageResult, NumeralPageResult, PointPageResult, LongIdResult }

SubQuestions == <<"q1", "q2">>

RECURSIVE Mapping(_, _, _)
\* the mapping whose i-th sub-question holds the next lens[i] results of flat
Mapping(lens, flat, i) ==
    IF i > Len(lens) THEN <<>>
    ELSE <<[sub_question |-> SubQuestions[i], results |-> SubSeq(flat, 1, lens[i])]>>
         \o Mapping(lens, SubSeq(flat, lens[i] + 1, Len(flat)), i + 1)

ExtractFilesOnDisk ==
    { "scratch/service_manual_long/page_5/tables/table-5-1.png",
      "scratch/service_manual_long/page_5/tables/" \o Join(Id_long) \o ".png",
      "scratch/service_manual_long/page_5/images/image-5-f.png" }

InitExtractFrom(pool) ==
    /\ \E nq \in 0..Len(SubQuestions) :
          \E lens \in [1..nq -> 0..MaxResults] :
             /\ SumSeq(lens) <= MaxResults
             /\ \E flat \in [1..SumSeq(lens) -> pool] :
                   ex_points = Mapping(lens, flat, 1)
    /\ ex_files \in {{}, ExtractFilesOnDisk}
    /\ ex_pc = IF Visits(ex_points) = <<>> THEN "correlate" ELSE "extract"
    /\ ex_n = 1
    /\ ex_k = 1
    /\ ex_log = <<>>
    /\ all_tables = <<>>
    /\ all_figures = <<>>
    /\ ex_refs = EmptyReferences
    /\ ex_out = EmptyReferences
    /\ ex_exc = "none"
    /\ IdleDedup
    /\ IdleCorrelate
    /\ IdleOthers

InitExtract == InitExtractFrom(ResultPool)

InitMalformed == InitExtractFrom(MalformedPool)

SpecExtract == InitExtract /\ [][NextExtract]_vars

SpecMalformed == InitMalformed /\ [][NextExtract]_vars

-----------------------------------------------------------------------------
(* Claims about extraction.  The payload locations are read here as the    *)
(* spec's table of section 4.4 describes them, for payloads of the          *)
(* documented shape.                                                       *)

Map(xs, F(_)) == [i \in 1..Len(xs) |-> F(xs[i])]

RECURSIVE Flatten(_)
Flatten(xss) == IF xss = <<>> THEN <<>> ELSE Head(xss) \o Flatten(Tail(xss))

\* the list under key of mapping m, empty when the key is absent
ListAt(m, key) == IF key \in DOMAIN m.d THEN m.d[key].items ELSE <<>>

\* the value under key of mapping m, None when the key is absent
ValueAt(m, key) == IF key \in DOMAIN m.d THEN m.d[key] ELSE PyNone

HasType(element, chars) == "type" \in DOMAIN element.d /\ element.d["type"] = PyStr(chars)

\* the validity rule: a string that is not empty and not the literal "None"
GoodId(v) == v.ty = "str" /\ v.s # <<>> /\ v.s # Str_None

ElementIdOf(element) == ValueAt(element, "element_id")
FigureIdOf(element) == ValueAt(element, "figure_id")
TableIdOf(entry) == ValueAt(entry, "table_id")
LabelOf(entry) == ValueAt(entry, "label")
IsTableElement(element) == HasType(element, Str_table)
IsFigureElement(element) == HasType(element, Str_figure)

RelatedLabelsOf(element) ==
    IF "within_page_relations" \in DOMAIN element.d
    THEN Map(ListAt(element.d["within_page_relations"], "related_figures"), LabelOf)
    ELSE <<>>

\* the identifiers, valid or not, at the location the named extractor scans
\* for tables
ScannedTableIds(name, result) ==
    CASE name = "ContentElements" ->
            Map(SelectSeq(ListAt(result, "content_elements"), IsTableElement), ElementIdOf)
      [] name = "FlattenedTables" -> Map(ListAt(result, "flattened_tables"), TableIdOf)
      [] name = "TableMetadata" -> Map(ListAt(result, "table_metadata"), TableIdOf)
      [] OTHER -> <<>>

\* the same for figures
ScannedFigureIds(name, result) ==
    CASE name = "ContentElements" ->
            Map(SelectSeq(ListAt(result, "content_elements"), IsFigureElement), FigureIdOf)
      [] name = "ContentSummary" ->
            IF "content_summary" \in DOMAIN result.d
            THEN ListAt(result.d["content_summary"], "figures") ELSE <<>>
      [] name = "WithinPageRelations" ->
            Flatten(Map(ListAt(result, "content_elements"), RelatedLabelsOf))
      [] OTHER -> <<>>

ElementIdField(ref) == ref.element_id
LabelField(ref) == ref.label

LastCall == ex_log[Len(ex_log)]
VisitOf(call) == Visits(ex_points)[call.n]

FiveExtractors ==
    {"ContentElements", "FlattenedTables", "TableMetadata", "ContentSummary",
     "WithinPageRelations"}

\* C4: whichever of the five extractors ran, the identifiers of the references
\* it returned are exactly the identifiers at its scanned location that are
\* non-empty strings other than "None", one reference each and in order: "",
\* None and "None" never yield a reference, every other string does.
C4_ValidityFilter ==
    ex_log # <<>> =>
        /\ LastCall.extractor \in FiveExtractors
        /\ Map(LastCall.tables, ElementIdField)
             = SelectSeq(ScannedTableIds(LastCall.extractor, VisitOf(LastCall).result), GoodId)
        /\ Map(LastCall.figures, LabelField)
             = SelectSeq(ScannedFigureIds(LastCall.extractor, VisitOf(LastCall).result), GoodId)

\* an extractor met "", None and "None" next to a valid identifier and
\* returned the one reference
C4_Witness ==
    /\ ex_log # <<>>
    /\ LET ids == ScannedFigureIds(LastCall.extractor, VisitOf(LastCall).result)
       IN  /\ \E i \in 1..Len(ids) : ids[i] = PyStr(Str_None)
           /\ \E i \in 1..Len(ids) : ids[i] = PyStr(<<>>)
           /\ \E i \in 1..Len(ids) : ids[i] = PyNone
    /\ Len(LastCall.figures) = 1

ExtractionFinished == ex_pc \in {"correlate", "dedup", "dump", "done"}

\* the references a result holds, location by location
ValidCount(result) ==
    SumSeq([k \in 1..5 |->
               Len(SelectSeq(ScannedTableIds(Extractors[k], result), GoodId))
               + Len(SelectSeq(ScannedFigureIds(Extractors[k], result), GoodId))])

TablesOfCall(call) == call.tables
FiguresOfCall(call) == call.figures
ValidCountOfVisit(visit) == ValidCount(visit.result)

\* a reference as the extractor returned it: the file fields, which only the
\* correlation sets, are None
AsReturned(ref) ==
    [f \in DOMAIN ref |-> IF f \in {"png_file", "html_file"} THEN PyNone ELSE ref[f]]

\* C5: the calls made so far are, result after result, the five extractors in
\* the order ContentElements, FlattenedTables, TableMetadata, ContentSummary,
\* WithinPageRelations; the running lists are the concatenation of everything
\* the calls returned; and when the loops end every result has contributed
\* one reference per valid identifier of each of its scanned locations.
C5_FixedOrderConcatenation ==
    ex_pc \notin {"idle", "raised"} =>
        /\ \A c \in 1..Len(ex_log) :
              /\ ex_log[c].n = ((c - 1) \div 5) + 1
              /\ ex_log[c].extractor
                   = <<"ContentElements", "FlattenedTables", "TableMetadata",
                       "ContentSummary", "WithinPageRelations">>[((c - 1) % 5) + 1]
        /\ Map(all_tables, AsReturned) = Flatten(Map(ex_log, TablesOfCall))
        /\ Map(all_figures, AsReturned) = Flatten(Map(ex_log, FiguresOfCall))
        /\ ExtractionFinished =>
              /\ Len(ex_log) = 5 * Len(Visits(ex_points))
              /\ Len(all_tables) + Len(all_figures)
                   = SumSeq(Map(Visits(ex_points), ValidCountOfVisit))

\* the loops ended after a result whose five locations each gave a reference
C5_Witness ==
    /\ ExtractionFinished
    /\ Len(ex_log) >= 10
    /\ \E n \in 1..Len(Visits(ex_points)) :
          /\ \A k \in 1..5 :
                Len(ex_log[5 * (n - 1) + k].tables) + Len(ex_log[5 * (n - 1) + k].figures) >= 1
          /\ ValidCount(Visits(ex_points)[n].result) >= 6

\* C6: what ContentElements returns for a result on page P is one
\* TableReference{element_id, page_number = P, sub_question} per "table" entry
\* with a valid element_id and one FigureReference{label = figure_id,
\* page_number = P, sub_question} per "figure" entry with a valid figure_id, in
\* order, and nothing for an entry of any other type.
C6_ContentElements ==
    (ex_log # <<>> /\ LastCall.extractor = "ContentElements") =>
        LET visit == VisitOf(LastCall)
            P == ValueAt(visit.result, "page_number")
            elements == ListAt(visit.result, "content_elements")
            ValidTable(el) == IsTableElement(el) /\ GoodId(ElementIdOf(el))
            ValidFigure(el) == IsFigureElement(el) /\ GoodId(FigureIdOf(el))
            TableRef(el) == [sub_question |-> visit.sub_question,
                             element_id |-> ElementIdOf(el), page_number |-> P,
                             png_file |-> PyNone, html_file |-> PyNone]
            FigureRef(el) == [sub_question |-> visit.sub_question,
                              label |-> FigureIdOf(el), page_number |-> P,
                              png_file |-> PyNone]
        IN  /\ LastCall.tables = Map(SelectSeq(elements, ValidTable), TableRef)
            /\ LastCall.figures = Map(SelectSeq(elements, ValidFigure), FigureRef)

\* spec scenario 1: content_elements = [{"type": "table", "element_id":
\* "table-5-1"}] on page 5 gave exactly one TableReference and no figure
C6_Witness ==
    /\ ex_log # <<>>
    /\ LastCall.extractor = "ContentElements"
    /\ VisitOf(LastCall).result = OneTableResult
    /\ LastCall.tables = <<TableReference(VisitOf(LastCall).sub_question,
                                          PyStr(Id_table_5_1), PyInt(5))>>
    /\ LastCall.figures = <<>>


Range(xs) == {xs[i] : i \in 1..Len(xs)}

\* the valid (element_id, page_number) pairs a visited result holds at any
\* scanned location
FoundTablePairs(visit) ==
    { <<id, ValueAt(visit.result, "page_number")>> :
        id \in UNION { Range(SelectSeq(ScannedTableIds(name, visit.result), GoodId)) :
                       name \in FiveExtractors } }

\* the valid (label, page_number) pairs a visited result holds
FoundFigurePairs(visit) ==
    { <<id, ValueAt(visit.result, "page_number")>> :
        id \in UNION { Range(SelectSeq(ScannedFigureIds(name, visit.result), GoodId)) :
                       name \in FiveExtractors } }

\* every pair found is in out exactly once, under the sub-question of the
\* first visit that holds it, and out holds nothing else
OncePerPair(out, Found(_), P(_)) ==
    LET visits == Visits(ex_points) IN
    /\ \A n \in 1..Len(visits) :
          \A pair \in Found(visits[n]) :
              LET first == CHOOSE m \in 1..n :
                               /\ pair \in Found(visits[m])
                               /\ \A h \in 1..(m - 1) : pair \notin Found(visits[h])
                  hits == {o \in 1..Len(out) : P(out[o]) = pair}
              IN  /\ Cardinality(hits) = 1
                  /\ \A o \in hits : out[o].sub_question = visits[first].sub_question
    /\ \A o \in 1..Len(out) : \E n \in 1..Len(visits) : P(out[o]) \in Found(visits[n])

\* C3: the returned tables hold each valid (element_id, page_number) pair and
\* the returned figures each valid (label, page_number) pair found in any
\* result exactly once, however many sub-questions, results and extractors
\* surfaced it, with the sub_question of its first occurrence.
C3_OncePerPairEndToEnd ==
    ex_pc = "done" =>
        /\ OncePerPair(ex_out.tables, FoundTablePairs, TablePair)
        /\ OncePerPair(ex_out.figures, FoundFigurePairs, FigurePair)

\* one table pair surfaced under both sub-questions and by two extractors of
\* one result, returned once under the first sub-question beside another pair
C3_Witness ==
    /\ ex_pc = "done"
    /\ Len(ex_points) = 2
    /\ \E a, b \in 1..Len(all_tables) :
          /\ a < b
          /\ TablePair(all_tables[a]) = TablePair(all_tables[b])
          /\ all_tables[a].sub_question = "q1"
          /\ all_tables[b].sub_question = "q2"
    /\ \E c \in 1..Len(ex_log) :
          /\ c + 2 <= Len(ex_log)
          /\ ex_log[c].extractor = "ContentElements"
          /\ ex_log[c].tables # <<>>
          /\ ex_log[c + 2].tables # <<>>
    /\ Len(ex_out.tables) >= 2
    /\ Len(ex_out.tables) < Len(all_tables)
    /\ Len(ex_out.figures) < Len(all_figures)

\* C7: a malformed payload entry is skipped where it is met: the function
\* never raises, and it returns the references of every well-formed table
\* element of every result.
C7_MalformedEntriesAbsorbed ==
    /\ ex_pc # "raised"
    /\ ex_pc = "done" =>
          \A n \in 1..Len(Visits(ex_points)) :
              LET visit == Visits(ex_points)[n]
                  elements == ListAt(visit.result, "content_elements")
              IN  \A e \in 1..Len(elements) :
                      (/\ elements[e].ty = "dict"
                       /\ IsTableElement(elements[e])
                       /\ GoodId(ElementIdOf(elements[e])))
                      => \E o \in 1..Len(ex_out.tables) :
                             TablePair(ex_out.tables[o])
                               = <<ElementIdOf(elements[e]),
                                   OptionalInt(ValueAt(visit.result, "page_number")).value>>

-----------------------------------------------------------------------------
(* strategies/base.py and strategies/fusion.py: _format_results             *)
(*                                                                         *)
(* A point of results.points is [id, score, payload].  Scores are kept on   *)
(* an integer scale.  The outcome of a call is [exc, value]: the exception  *)
(* that left it ("none" when none did) and the list it returned.            *)

Point(id, score, payload) == [id |-> PyInt(id), score |-> PyInt(score), payload |-> payload]

FormatReturned(value) == [exc |-> "none", value |-> value]
FormatRaised(exc) == [exc |-> exc, value |-> <<>>]

\* a formatter that also copies every key of the payload to the top level
BaseRecordSpreadsPayload(point, payload) ==
    [score |-> point.score, id |-> point.id, payload |-> payload,
     text |-> Get(payload, "embedding_text", PyStr(<<>>))] @@ payload.d

\* base.py:49-69: the dictionary literal
BaseRecord(point, payload) ==
    [score |-> point.score,
     id |-> point.id,
     payload |-> payload,
     text |-> Get(payload, "embedding_text", PyStr(<<>>)),
     page_number |-> Get(payload, "page_number", PyNone),
     document_title |-> Get(payload, "document_title", PyNone),
     document_id |-> Get(payload, "document_id", PyNone),
     section_title |-> Get(payload, "section_title", PyNone),
     subsection_title |-> Get(payload, "subsection_title", PyNone),
     manufacturer |-> Get(payload, "manufacturer", PyNone),
     models_covered |-> Get(payload, "models_covered", PyList(<<>>)),
     entities |-> Get(payload, "entities", PyList(<<>>)),
     keywords |-> Get(payload, "keywords", PyList(<<>>)),
     warnings |-> Get(payload, "warnings", PyList(<<>>)),
     has_tables |-> Get(payload, "has_tables", PyBool(FALSE)),
     has_figures |-> Get(payload, "has_figures", PyBool(FALSE)),
     table_count |-> Get(payload, "table_count", PyInt(0)),
     figure_count |-> Get(payload, "figure_count", PyInt(0))]

\* base.py:75-82: the dictionary given to formatted_result.update
MetadataRecord(full_metadata) ==
    [page_visual_description |-> Get(full_metadata, "page_visual_description", PyNone),
     content_elements |-> Get(full_metadata, "content_elements", PyList(<<>>)),
     text_content |-> Get(full_metadata, "text_content", PyNone),
     text_file |-> Get(full_metadata, "text_file", PyNone)]

\* base.py:46-83: the body of the loop for one point
FormatPoint(point) ==
    LET payload == point.payload IN
    IF ~HasGet(payload) THEN FormatRaised("AttributeError")
    ELSE IF "full_page_metadata" \in DOMAIN payload.d
         THEN LET full_metadata == payload.d["full_page_metadata"] IN
              IF ~HasGet(full_metadata) THEN FormatRaised("AttributeError")
              ELSE FormatReturned(PyDict(MetadataRecord(full_metadata)
                                         @@ BaseRecord(point, payload)))
         ELSE FormatReturned(PyDict(BaseRecord(point, payload)))

RECURSIVE FormatLoop(_, _)
\* base.py:45-85
FormatLoop(points, formatted_results) ==
    IF points = <<>> THEN FormatReturned(formatted_results)
    ELSE LET one == FormatPoint(Head(points)) IN
         IF one.exc # "none" THEN FormatRaised(one.exc)
         ELSE FormatLoop(Tail(points), Append(formatted_results, one.value))

\* a formatter that keeps only the first point
FormatFirstOnly(points) ==
    FormatLoop(IF points = <<>> THEN <<>> ELSE <<Head(points)>>, <<>>)

\* BaseQdrantRetriever._format_results, base.py:41-87
format_results(points) == FormatLoop(points, <<>>)

\* FusionybridRetriever._format_results, fusion.py:117-124
fusion_format_results(points) ==
    FormatReturned([i \in 1..Len(points) |->
        PyDict([id |-> points[i].id, score |-> points[i].score,
                payload |-> points[i].payload])])

\* the formatter a retriever class uses: only FusionybridRetriever overrides it
FormatFor(retriever, points) ==
    IF retriever = "FusionybridRetriever" THEN fusion_format_results(points)
    ELSE format_results(points)

-----------------------------------------------------------------------------
(* SpecFormat: both formatters applied to the same results.points.          *)

Str_manual == <<"m", "a", "n", "u", "a", "l">>
Str_brakes == <<"b", "r", "a", "k", "e", "s">>

\* a payload as the indexer writes it, with every documented key
FullPayload ==
    PyDict([embedding_text |-> PyStr(Str_brakes),
            page_number |-> PyInt(5),
            document_title |-> PyStr(Str_manual),
            document_id |-> PyStr(<<"d", "1">>),
            section_title |-> PyStr(<<"s">>),
            subsection_title |-> PyStr(<<"s", "s">>),
            manufacturer |-> PyStr(<<"J", "L", "G">>),
            models_covered |-> PyList(<<PyStr(<<"1", "0", "5", "5">>)>>),
            entities |-> PyList(<<PyStr(Str_brakes)>>),
            keywords |-> PyList(<<PyStr(Str_brakes)>>),
            warnings |-> PyList(<<>>),
            has_tables |-> PyBool(TRUE),
            has_figures |-> PyBool(FALSE),
            table_count |-> PyInt(1),
            figure_count |-> PyInt(0),
            full_page_metadata |->
                PyDict([page_visual_description |-> PyStr(<<"v">>),
                        content_elements |-> PyList(<<TableElement(PyStr(Id_table_5_1))>>),
                        text_content |-> PyStr(Str_brakes),
                        text_file |-> PyStr(<<"p", ".", "t", "x", "t">>)])])

\* some of the documented keys only
PartialPayload == PyDict([page_number |-> PyInt(9), embedding_text |-> PyStr(Str_brakes)])

\* no key at all
EmptyPayload == PyDict(<<>>)

\* none of the documented keys
UndocumentedPayload == PyDict([name |-> PyStr(Str_manual)])

\* full_page_metadata present and empty
EmptyMetadataPayload == PyDict([page_number |-> PyInt(5), full_page_metadata |-> PyDict(<<>>)])

\* full_page_metadata present with the value null
NullMetadataPayload == PyDict([page_number |-> PyInt(5), full_page_metadata |-> PyNone])

\* a point stored without payload
NullPayload == PyNone

PayloadPool ==
    {FullPayload, PartialPayload, EmptyPayload, UndocumentedPayload,
     EmptyMetadataPayload, NullMetadataPayload, NullPayload}

\* the score of the point at position i of a result list in descending order
ScoreAt(i) == 12 - i

InitFormat ==
    /\ fm_pc = "start"
    /\ \E n \in 0..MaxFormatPoints :
          \E ps \in [1..n -> PayloadPool] :
             fm_results = [i \in 1..n |-> Point(i, ScoreAt(i), ps[i])]
    /\ fm_base = PyNone
    /\ fm_fusion = PyNone
    /\ IdleReferences
    /\ IdleIngestion
    /\ IdleRetrieve
    /\ IdleService

\* BaseQdrantRetriever._format_results(results)
FormatResults ==
    /\ fm_pc = "start"
    /\ fm_base' = format_results(fm_results)
    /\ fm_pc' = "base"
    /\ UNCHANGED <<fm_results, fm_fusion, refVars, igVars, rtVars, svVars>>

\* FusionybridRetriever._format_results(results)
FormatResultsFusion ==
    /\ fm_pc = "base"
    /\ fm_fusion' = fusion_format_results(fm_results)
    /\ fm_pc' = "done"
    /\ UNCHANGED <<fm_results, fm_base, refVars, igVars, rtVars, svVars>>

NextFormat == FormatResults \/ FormatResultsFusion

SpecFormat == InitFormat /\ [][NextFormat]_vars

-----------------------------------------------------------------------------
(* Claims about result formatting.                                         *)

\* output field, payload key it is read from, for every documented field
\* that is read from the payload
DocumentedFields ==
    {<<"text", "embedding_text">>, <<"page_number", "page_number">>,
     <<"document_title", "document_title">>, <<"document_id", "document_id">>,
     <<"section_title", "section_title">>, <<"subsection_title", "subsection_title">>,
     <<"manufacturer", "manufacturer">>, <<"models_covered", "models_covered">>,
     <<"entities", "entities">>, <<"keywords", "keywords">>, <<"warnings", "warnings">>,
     <<"has_tables", "has_tables">>, <<"has_figures", "has_figures">>,
     <<"table_count", "table_count">>, <<"figure_count", "figure_count">>}

DocumentedDefaults == {PyStr(<<>>), PyList(<<>>), PyBool(FALSE), PyInt(0)}

\* record is the documented flattening of point
DocumentedRecord(record, point) ==
    /\ record.ty = "dict"
    /\ {"score", "id", "payload"} \subseteq DOMAIN record.d
    /\ record.d["score"] = point.score
    /\ record.d["id"] = point.id
    /\ \A f \in DocumentedFields :
          /\ f[1] \in DOMAIN record.d
          /\ IF point.payload.ty = "dict" /\ f[2] \in DOMAIN point.payload.d
             THEN record.d[f[1]] = point.payload.d[f[2]]
             ELSE record.d[f[1]] \in DocumentedDefaults

\* C11: for every list of store points, whatever their payload (any subset of
\* the keys, no documented key, a null payload, a null full_page_metadata),
\* _format_results does not raise, and every documented output field is
\* present in every record, an absent input field taking a default of empty
\* string, empty list, false or zero.
C11_FormatterTotal ==
    fm_pc \in {"base", "done"} =>
        /\ fm_base.exc = "none"
        /\ Len(fm_base.value) = Len(fm_results)
        /\ \A i \in 1..Len(fm_results) : DocumentedRecord(fm_base.value[i], fm_results[i])

\* C12: for the same store result, the formatter of FusionybridRetriever and
\* the formatter the other retrievers inherit return the same list of
\* records whenever both return.
C12_FormattingIdentical ==
    (fm_pc = "done" /\ fm_base.exc = "none" /\ fm_fusion.exc = "none") =>
        fm_fusion.value = fm_base.value

-----------------------------------------------------------------------------
(* The staged query a retriever hands to client.query_points, and the       *)
(* store's side of the query contract.                                      *)
(*                                                                         *)
(* A stage is [prefetch, using, fusion, limit, score_threshold]: prefetch   *)
(* the sequence of inner stages, using the vector field ("none" when the    *)
(* stage has no vector), fusion "rrf" for a models.FusionQuery and "none"   *)
(* otherwise, limit and score_threshold a PyInt or PyNone when not given.   *)

Prefetch(prefetch, using, fusion, limit) ==
    [prefetch |-> prefetch, using |-> using, fusion |-> fusion, limit |-> limit,
     score_threshold |-> PyNone]

QueryPoints(prefetch, using, limit, score_threshold, with_payload) ==
    [prefetch |-> prefetch, using |-> using, fusion |-> "none", limit |-> limit,
     score_threshold |-> score_threshold, with_payload |-> with_payload]

Fields == {"colbert", "dense", "sparse", "small-embedding", "large-embedding"}

\* 1-based position of point id i in a stage's result list, 0 when absent
PositionIn(list, i) ==
    IF \E k \in 1..Len(list) : list[k].id = i
    THEN CHOOSE k \in 1..Len(list) : list[k].id = i
    ELSE 0

\* reciprocal rank fusion on an integer scale: 420 / (rank + 2), rank from 0,
\* summed over the lists the point occurs in
RrfScore(lists, i) ==
    SumSeq([k \in 1..Len(lists) |->
                IF PositionIn(lists[k], i) = 0 THEN 0
                ELSE 420 \div (PositionIn(lists[k], i) + 1)])

\* the ids of S by descending score, equal scores in id order
SortedByScore(S, score(_)) ==
    [k \in 1..Cardinality(S) |->
        CHOOSE i \in S :
            Cardinality({j \in S : score(j) > score(i)
                                      \/ (score(j) = score(i) /\ j < i)}) = k - 1]

RECURSIVE StoreEval(_, _)
\* what the store answers to a stage: the candidates are the whole collection
\* for a leaf and the union of the inner stages' results otherwise; they are
\* scored by the stage's field (or fused), those under score_threshold are
\* dropped, and the best `limit` (10 when the stage gives none) are returned
\* in descending score order
StoreEval(stage, store) ==
    LET inner == [k \in 1..Len(stage.prefetch) |-> StoreEval(stage.prefetch[k], store)]
        candidates ==
            IF stage.prefetch = <<>> THEN 1..Len(store)
            ELSE UNION {{inner[k][j].id : j \in 1..Len(inner[k])} : k \in 1..Len(inner)}
        score(i) ==
            IF stage.fusion = "rrf" THEN RrfScore(inner, i)
            ELSE store[i].scores[stage.using]
        kept == {i \in candidates :
                    stage.score_threshold = PyNone \/ score(i) >= stage.score_threshold.n}
        sorted == SortedByScore(kept, score)
        limit == IF stage.limit = PyNone THEN 10 ELSE stage.limit.n
        n == IF Len(sorted) < limit THEN Len(sorted) ELSE limit
    IN [k \in 1..n |-> [id |-> sorted[k], score |-> score(sorted[k])]]

\* client.query_points(...).points
query_points(query, store) ==
    LET hits == StoreEval(query, store)
    IN [k \in 1..Len(hits) |->
           Point(hits[k].id, hits[k].score,
                 IF query.with_payload THEN store[hits[k].id].payload ELSE PyNone)]

-----------------------------------------------------------------------------
(* strategies/colbert.py, hybrid.py, matrioska.py, fusion.py: retrieve      *)
(*                                                                         *)
(* The keyword arguments of a call are [limit, prefetch_limit,              *)
(* score_threshold]; an argument the caller leaves out is Omitted and takes *)
(* the default of the method's signature.                                   *)

Omitted == [ty |-> "omitted"]

Arg(value, default) == IF value = Omitted THEN default ELSE value

\* `a or b`
Or(a, b) == IF Truthy(a) THEN a ELSE b

\* a colbert query that hands prefetch_limit to the store as its limit
ColbertQueryPrefetchAsLimit(args) ==
    QueryPoints(<<>>, "colbert",
                Arg(args.prefetch_limit, PyInt(20)),
                Arg(args.score_threshold, PyInt(10)),
                TRUE)

\* ColbertRetriever.retrieve, colbert.py:20-37
ColbertQuery(args) ==
    QueryPoints(<<>>, "colbert",
                Arg(args.limit, PyInt(10)),
                Arg(args.score_threshold, PyInt(10)),
                TRUE)

\* HybridRetriever.retrieve, hybrid.py:26-61
HybridQuery(args) ==
    LET prefetch_limit == Or(Arg(args.prefetch_limit, PyInt(20)), PyInt(20))
    IN QueryPoints(<<Prefetch(<<>>, "dense", "none", prefetch_limit),
                     Prefetch(<<>>, "sparse", "none", prefetch_limit)>>,
                   "colbert",
                   Arg(args.limit, PyInt(5)),
                   Arg(args.score_threshold, PyInt(10)),
                   TRUE)

\* MatrioskaRetriever._get_matryoska_prefetch, matrioska.py:34-64; retrieve does
\* not call it
get_matryoska_prefetch(limit_small_vector, limit_large_vector) ==
    Prefetch(<<Prefetch(<<Prefetch(<<>>, "small-embedding", "none", limit_small_vector)>>,
                        "large-embedding", "none", limit_large_vector)>>,
             "none", "none", PyNone)

\* MatrioskaRetriever.retrieve, matrioska.py:66-94: score_threshold is accepted
\* and not used; with_payload is left to the client's default, True
MatrioskaQuery(args) ==
    LET prefetch_limit == Or(Arg(args.prefetch_limit, PyInt(50)), PyInt(50))
    IN QueryPoints(<<Prefetch(<<>>, "small-embedding", "none", prefetch_limit)>>,
                   "large-embedding",
                   Arg(args.limit, PyInt(5)),
                   PyNone,
                   TRUE)

\* a fusion query that forgets the caller's limit
FusionQueryNoLimit(args) ==
    QueryPoints(<<Prefetch(<<Prefetch(<<>>, "small-embedding", "none", PyInt(100))>>,
                           "large-embedding", "none", PyInt(50)),
                  Prefetch(<<Prefetch(<<>>, "dense", "none", PyInt(100)),
                             Prefetch(<<>>, "sparse", "none", PyInt(25))>>,
                           "none", "rrf", PyNone)>>,
                "colbert", PyInt(10), PyNone, TRUE)

\* FusionybridRetriever.retrieve, fusion.py:42-112: prefetch_limit is accepted
\* and not used
FusionQuery(args) ==
    QueryPoints(<<Prefetch(<<Prefetch(<<>>, "small-embedding", "none", PyInt(100))>>,
                           "large-embedding", "none", PyInt(50)),
                  Prefetch(<<Prefetch(<<>>, "dense", "none", PyInt(100)),
                             Prefetch(<<>>, "sparse", "none", PyInt(25))>>,
                           "none", "rrf", PyNone)>>,
                "colbert",
                Arg(args.limit, PyInt(10)),
                PyNone,
                TRUE)

\* whether the method's signature has the parameter score_threshold
\* (fusion.py:42-48 has none)
AcceptsScoreThreshold(retriever) == retriever # "FusionybridRetriever"

QueryOf(retriever, args) ==
    CASE retriever = "ColbertRetriever" -> ColbertQuery(args)
      [] retriever = "HybridRetriever" -> HybridQuery(args)
      [] retriever = "MatrioskaRetriever" -> MatrioskaQuery(args)
      [] retriever = "FusionybridRetriever" -> FusionQuery(args)

\* retrieve(query, **args) on a retriever object: [exc, query, points, value]
retrieve(retriever, args, store) ==
    IF args.score_threshold # Omitted /\ ~AcceptsScoreThreshold(retriever)
    THEN [exc |-> "TypeError", query |-> PyNone, points |-> <<>>, value |-> <<>>]
    ELSE LET query == QueryOf(retriever, args)
             points == query_points(query, store)
             formatted == FormatFor(retriever, points)
         IN [exc |-> formatted.exc, query |-> query, points |-> points,
             value |-> formatted.value]

-----------------------------------------------------------------------------
(* strategies/__init__.py: RetrieverFactory.create_retriever                *)

\* a factory that falls back to ColbertRetriever for a tag it does not know
CreateOrFallBack(search_type, openai_client) ==
    CASE search_type = "hybrid" -> [exc |-> "none", retriever |-> "HybridRetriever"]
      [] search_type = "matrioska" /\ openai_client ->
            [exc |-> "none", retriever |-> "MatrioskaRetriever"]
      [] OTHER -> [exc |-> "none", retriever |-> "ColbertRetriever"]

create_retriever(search_type, openai_client) ==
    IF search_type = "colbert" THEN [exc |-> "none", retriever |-> "ColbertRetriever"]
    ELSE IF search_type = "hybrid" THEN [exc |-> "none", retriever |-> "HybridRetriever"]
    ELSE IF search_type = "matrioska"
         THEN IF ~openai_client THEN [exc |-> "ValueError", retriever |-> "none"]
              ELSE [exc |-> "none", retriever |-> "MatrioskaRetriever"]
    ELSE [exc |-> "ValueError", retriever |-> "none"]

-----------------------------------------------------------------------------
(* SpecRetrieve: a retriever is made by the factory (or, for the fusion     *)
(* variant, by its constructor) and retrieve is called once on it, against  *)
(* a collection whose points carry payloads as the indexer writes them.     *)

SearchTypes == {"colbert", "hybrid", "matrioska", "fusion"}

\* a tag outside the closed set
Tag_bm25 == "bm25"

\* score of point i under a field, for the three shapes a field can have:
\* best first, best last, and every score below 10
ScoreShapes == {"descending", "ascending", "low"}

ShapeScore(shape, i) ==
    CASE shape = "descending" -> 12 - i
      [] shape = "ascending" -> 8 + i
      [] shape = "low" -> 9 - i

StoredPayloads == <<FullPayload, PartialPayload, EmptyMetadataPayload>>

\* the collection of n points whose field f has the shape shapes[f]
Collection(n, shapes) ==
    [i \in 1..n |->
        [id |-> i,
         payload |-> StoredPayloads[((i - 1) % Len(StoredPayloads)) + 1],
         scores |-> [f \in Fields |-> ShapeScore(shapes[f], i)]]]

LimitArgs == {Omitted} \cup {PyInt(n) : n \in 1..MaxLimit}

PrefetchLimitArgs == {Omitted, PyNone} \cup {PyInt(n) : n \in 0..MaxPrefetchLimit}

ScoreThresholdArgs == {Omitted, PyNone, PyInt(10), PyInt(11)}

RetrieveArgs ==
    [limit : LimitArgs, prefetch_limit : PrefetchLimitArgs,
     score_threshold : ScoreThresholdArgs]

InitRetrieve ==
    /\ rt_pc = "start"
    /\ rt_tag \in SearchTypes \cup {Tag_bm25}
    /\ rt_client \in BOOLEAN
    /\ rt_retriever = "none"
    /\ rt_args = <<>>
    /\ \E n \in {0, MaxStorePoints} :
          \E shapes \in [Fields -> ScoreShapes] :
             /\ shapes["dense"] # "low"
             /\ shapes["sparse"] # "low"
             /\ shapes["small-embedding"] # "low"
             /\ rt_store = Collection(n, shapes)
    /\ rt_query = PyNone
    /\ rt_points = <<>>
    /\ rt_out = <<>>
    /\ rt_exc = "none"
    /\ IdleReferences
    /\ IdleIngestion
    /\ IdleFormat
    /\ IdleService

\* RetrieverFactory.create_retriever(rt_tag, config, openai_client)
CreateRetriever ==
    /\ rt_pc = "start"
    /\ LET made == create_retriever(rt_tag, rt_client) IN
          /\ rt_retriever' = made.retriever
          /\ rt_exc' = made.exc
          /\ rt_pc' = IF made.exc = "none" THEN "created" ELSE "raised"
    /\ UNCHANGED <<rt_tag, rt_client, rt_args, rt_store, rt_query, rt_points, rt_out,
                   refVars, igVars, fmVars, svVars>>

\* FusionybridRetriever(config=..., openai_client=...), fusion.py:140-142
ConstructFusion ==
    /\ rt_pc = "start"
    /\ rt_tag = "fusion"
    /\ rt_client
    /\ rt_retriever' = "FusionybridRetriever"
    /\ rt_pc' = "created"
    /\ UNCHANGED <<rt_tag, rt_client, rt_args, rt_store, rt_query, rt_points, rt_out,
                   rt_exc, refVars, igVars, fmVars, svVars>>

\* one call of retrieve on the retriever object, with any keyword arguments
Retrieve(retriever) ==
    \E args \in RetrieveArgs :
        LET call == retrieve(retriever, args, rt_store) IN
           /\ rt_args' = args
           /\ rt_query' = call.query
           /\ rt_points' = call.points
           /\ rt_out' = call.value
           /\ rt_exc' = call.exc
           /\ rt_pc' = IF call.exc = "none" THEN "returned" ELSE "raised"
           /\ UNCHANGED <<rt_tag, rt_client, rt_retriever, rt_store,
                          refVars, igVars, fmVars, svVars>>

RetrieveColbert ==
    /\ rt_pc = "created"
    /\ rt_retriever = "ColbertRetriever"
    /\ Retrieve("ColbertRetriever")

RetrieveHybrid ==
    /\ rt_pc = "created"
    /\ rt_retriever = "HybridRetriever"
    /\ Retrieve("HybridRetriever")

RetrieveMatrioska ==
    /\ rt_pc = "created"
    /\ rt_retriever = "MatrioskaRetriever"
    /\ Retrieve("MatrioskaRetriever")

RetrieveFusion ==
    /\ rt_pc = "created"
    /\ rt_retriever = "FusionybridRetriever"
    /\ Retrieve("FusionybridRetriever")

NextRetrieve ==
    \/ CreateRetriever
    \/ ConstructFusion
    \/ RetrieveColbert
    \/ RetrieveHybrid
    \/ RetrieveMatrioska
    \/ RetrieveFusion

SpecRetrieve == InitRetrieve /\ [][NextRetrieve]_vars

-----------------------------------------------------------------------------
(* Claims about the factory and the retrieval strategies.                   *)

ClassOf(search_type) ==
    CASE search_type = "colbert" -> "ColbertRetriever"
      [] search_type = "hybrid" -> "HybridRetriever"
      [] search_type = "matrioska" -> "MatrioskaRetriever"
      [] search_type = "fusion" -> "FusionybridRetriever"

\* C13: once a retriever has been asked for, a tag of the closed set
\* {colbert, hybrid, matrioska, fusion} (with the OpenAI client the variant
\* needs) has given a retriever of the matching class, and a tag outside the
\* set has given a ValueError and no retriever.
C13_FactorySelection ==
    rt_pc # "start" /\ rt_pc # "idle" =>
        IF rt_tag \in SearchTypes
        THEN rt_client => rt_retriever = ClassOf(rt_tag)
        ELSE rt_pc = "raised" /\ rt_exc = "ValueError" /\ rt_retriever = "none"

\* the limit a call asks for: the argument, or the default of the signature
LimitOf(retriever, args) ==
    IF args.limit # Omitted THEN args.limit.n
    ELSE IF retriever \in {"ColbertRetriever", "FusionybridRetriever"} THEN 10 ELSE 5

OutScore(i) == rt_out[i].d["score"].n
OutIds == {rt_out[i].d["id"].n : i \in 1..Len(rt_out)}
IdsOf(hits) == {hits[k].id : k \in 1..Len(hits)}

\* C14: whatever the variant and the arguments, the list retrieve returns has
\* at most `limit` records and their scores never increase along the list.
C14_AtMostLimitDescending ==
    rt_pc = "returned" =>
        /\ Len(rt_out) <= LimitOf(rt_retriever, rt_args)
        /\ \A i \in 1..Len(rt_out) - 1 : OutScore(i) >= OutScore(i + 1)

\* a call whose limit is below the number of stored points returned exactly
\* `limit` records
C14_Witness ==
    /\ rt_pc = "returned"
    /\ rt_retriever = "ColbertRetriever"
    /\ rt_args.limit = PyInt(2)
    /\ rt_args.score_threshold = PyNone
    /\ Len(rt_store) > 2
    /\ Len(rt_out) = 2
    /\ OutScore(1) > OutScore(2)

\* C15: retrieve returns one record per point the store returned, in the
\* store's order, with the store's id and score, and a ColbertRetriever call
\* returns (an empty list when the store returns no point) and does not raise.
C15_NoFilterNoReorder ==
    /\ rt_pc = "returned" =>
          /\ rt_points = query_points(rt_query, rt_store)
          /\ Len(rt_out) = Len(rt_points)
          /\ \A i \in 1..Len(rt_points) :
                /\ rt_out[i].d["id"] = rt_points[i].id
                /\ rt_out[i].d["score"] = rt_points[i].score
    /\ (rt_retriever = "ColbertRetriever" /\ rt_pc \in {"returned", "raised"}) =>
          rt_pc = "returned"

\* scenario 4: ColBERT, score_threshold=10, every stored score below 10
C15_Witness ==
    /\ rt_pc = "returned"
    /\ rt_retriever = "ColbertRetriever"
    /\ rt_args.score_threshold = PyInt(10)
    /\ Len(rt_store) > 0
    /\ \A i \in 1..Len(rt_store) : rt_store[i].scores["colbert"] < 10
    /\ rt_points = <<>>
    /\ rt_out = <<>>

\* C16: a retrieve call given an integer score_threshold returns, its store
\* query carries that threshold at the outer-most stage, and no returned
\* record has a score below it.
C16_ThresholdForwarded ==
    (rt_pc \in {"returned", "raised"} /\ rt_args # <<>>
        /\ rt_args.score_threshold \notin {Omitted, PyNone}) =>
        /\ rt_pc = "returned"
        /\ rt_query.score_threshold = rt_args.score_threshold
        /\ \A i \in 1..Len(rt_out) : OutScore(i) >= rt_args.score_threshold.n

\* a stage with no inner stage that scores the collection by one field
IsLeaf(stage, field) ==
    stage.prefetch = <<>> /\ stage.using = field /\ stage.fusion = "none"

\* a stage that reranks the results of its single inner stage by one field
IsRerank(stage, field) ==
    Len(stage.prefetch) = 1 /\ stage.using = field /\ stage.fusion = "none"

\* the ids the outer stage chooses from: the results of the inner stages
CandidateIds(query, store) ==
    UNION {IdsOf(StoreEval(query.prefetch[k], store)) : k \in 1..Len(query.prefetch)}

\* the prefetch stages and the outer stage of a hybrid query built for the
\* branch limit prefetch_limit
HybridShape(prefetch_limit) ==
    LET dense == rt_query.prefetch[1]
        sparse == rt_query.prefetch[2]
    IN /\ Len(rt_query.prefetch) = 2
       /\ IsLeaf(dense, "dense") /\ dense.limit = prefetch_limit
       /\ IsLeaf(sparse, "sparse") /\ sparse.limit = prefetch_limit
       /\ rt_query.using = "colbert" /\ rt_query.fusion = "none"
       /\ rt_query.limit.n = LimitOf(rt_retriever, rt_args)
       /\ rt_query.score_threshold = Arg(rt_args.score_threshold, PyInt(10))
       /\ OutIds \subseteq IdsOf(StoreEval(dense, rt_store))
                           \cup IdsOf(StoreEval(sparse, rt_store))

\* the caller's prefetch_limit: the default 20 when the caller gives none
CallersPrefetchLimit ==
    IF rt_args.prefetch_limit \in {Omitted, PyNone} THEN PyInt(20)
    ELSE rt_args.prefetch_limit

\* C17: a HybridRetriever call builds two sibling leaf prefetches, dense then
\* sparse, both limited to the caller's prefetch_limit (20 when the caller
\* gives none), no fusion node, and one outer stage on the colbert field that
\* carries limit and score_threshold; every returned point is among the dense
\* branch's or the sparse branch's candidates.
C17_HybridTwoBranches ==
    (rt_pc = "returned" /\ rt_retriever = "HybridRetriever") =>
        HybridShape(CallersPrefetchLimit)

\* what the code does: the claim with a prefetch_limit of 0 counted as none
C17_HybridTwoBranchesUnlessZero ==
    (rt_pc = "returned" /\ rt_retriever = "HybridRetriever") =>
        HybridShape(IF rt_args.prefetch_limit = PyInt(0) THEN PyInt(20)
                    ELSE CallersPrefetchLimit)

\* C18: a MatrioskaRetriever call builds the two-level staged rerank: stage 1
\* a leaf on the small-embedding field limited to 100, stage 2 reranking it on
\* the large-embedding field down to 50, the outer call narrowing to limit;
\* the stage-2 candidates are among the stage-1 candidates, and the output
\* has at most min(limit, 50, 100) records.
C18_MatryoshkaStaging ==
    (rt_pc = "returned" /\ rt_retriever = "MatrioskaRetriever") =>
        /\ Len(rt_query.prefetch) = 1
        /\ LET stage2 == rt_query.prefetch[1] IN
              /\ IsRerank(stage2, "large-embedding")
              /\ stage2.limit = PyInt(50)
              /\ IsLeaf(stage2.prefetch[1], "small-embedding")
              /\ stage2.prefetch[1].limit = PyInt(100)
              /\ IdsOf(StoreEval(stage2, rt_store))
                    \subseteq IdsOf(StoreEval(stage2.prefetch[1], rt_store))
        /\ rt_query.limit.n = LimitOf(rt_retriever, rt_args)
        /\ Len(rt_out) <= LimitOf(rt_retriever, rt_args)
        /\ Len(rt_out) <= 50

\* C19: a FusionybridRetriever call builds one outer stage on the colbert
\* field with the caller's limit over two prefetch children: Branch A, a
\* small-embedding leaf reranked by large-embedding, and Branch B, a dense
\* leaf and a sparse leaf under an RRF fusion node; every returned point is a
\* candidate of Branch A or Branch B, and at most limit points are returned.
C19_FusionTwoBranches ==
    (rt_pc = "returned" /\ rt_retriever = "FusionybridRetriever") =>
        LET branchA == rt_query.prefetch[1]
            branchB == rt_query.prefetch[2]
        IN /\ Len(rt_query.prefetch) = 2
           /\ IsRerank(branchA, "large-embedding")
           /\ IsLeaf(branchA.prefetch[1], "small-embedding")
           /\ branchB.fusion = "rrf" /\ branchB.using = "none"
           /\ Len(branchB.prefetch) = 2
           /\ IsLeaf(branchB.prefetch[1], "dense")
           /\ IsLeaf(branchB.prefetch[2], "sparse")
           /\ rt_query.using = "colbert" /\ rt_query.fusion = "none"
           /\ rt_query.limit.n = LimitOf(rt_retriever, rt_args)
           /\ OutIds \subseteq CandidateIds(rt_query, rt_store)
           /\ Len(rt_out) <= LimitOf(rt_retriever, rt_args)

\* limit 1 over three stored points: the single best point by colbert score
C19_Witness ==
    /\ rt_pc = "returned"
    /\ rt_retriever = "FusionybridRetriever"
    /\ rt_args.limit = PyInt(1)
    /\ Len(rt_store) = 3
    /\ Len(rt_out) = 1
    /\ \A i \in 1..Len(rt_store) : OutScore(1) >= rt_store[i].scores["colbert"]

-----------------------------------------------------------------------------
(* services.py: RetrievalService.answer_question and _retrieve_points       *)
(*                                                                         *)
(* The collaborators (decomposition LLM, retriever, reference extraction,   *)
(* answer LLM) are outside the service; what each of them will do in one    *)
(* request is fixed in sv_env when the request starts:                      *)
(*   decomposition_raises  decompose_query raises                           *)
(*   questions             the sub_question of every SubQuestionMapping     *)
(*   failing               indices of the mappings whose retrieve raises    *)
(*   extraction_raises     extract_tables_and_figures_references raises     *)
(*   llm_raises            the answer-synthesis chat call raises            *)
(* sv_calls records every call the request makes: [op, i, ok].               *)

Call(op, i, ok) == [op |-> op, i |-> i, ok |-> ok]

\* results[key] = value on a dict kept as a sequence of [key, value]
DictSet(items, key, value) ==
    IF \E k \in 1..Len(items) : items[k].key = key
    THEN [k \in 1..Len(items) |->
            IF items[k].key = key THEN [key |-> key, value |-> value] ELSE items[k]]
    ELSE Append(items, [key |-> key, value |-> value])

\* what the retriever returns for the i-th mapping: a list only that call returns
RetrievedFor(i) == PyList(<<PyInt(i)>>)

\* a loop that drops a failed sub-question and goes on with the next one
ContinueAfterFailure(i, n) ==
    [pc |-> IF i < n THEN "retrieve" ELSE "extract", exc |-> "none"]

\* services.py:158-161: nothing catches what retrieve raises, so it leaves
\* _retrieve_points and answer_question
AfterRetrieveFailure(i, n) == [pc |-> "raised", exc |-> "RetrieveError"]

\* the text of the i-th mapping's sub_question when it repeats no other
SubQuestionText(i) == "q" \o ToString(i)

\* decompositions of n mappings: each sub_question is a text of its own or
\* repeats the text of the first mapping
Decompositions(n) ==
    {qs \in [1..n -> {SubQuestionText(i) : i \in 1..n}] :
        \A i \in 1..n : qs[i] \in {SubQuestionText(i), SubQuestionText(1)}}

InitService ==
    /\ sv_pc = "start"
    /\ sv_strategy \in BOOLEAN
    /\ \E n \in 0..MaxSubQuestions :
          \E qs \in Decompositions(n), failing \in SUBSET (1..n),
             d \in BOOLEAN, e \in BOOLEAN, l \in BOOLEAN :
             sv_env = [decomposition_raises |-> d, questions |-> qs, failing |-> failing,
                       extraction_raises |-> e, llm_raises |-> l]
    /\ sv_i = 0
    /\ sv_results = <<>>
    /\ sv_calls = <<>>
    /\ sv_out = PyNone
    /\ sv_exc = "none"
    /\ IdleReferences
    /\ IdleIngestion
    /\ IdleFormat
    /\ IdleRetrieve

\* services.py:149-151
Decompose ==
    /\ sv_pc = "start"
    /\ sv_calls' = Append(sv_calls, Call("decompose", 0, ~sv_env.decomposition_raises))
    /\ IF sv_env.decomposition_raises
       THEN /\ sv_pc' = "raised"
            /\ sv_exc' = "DecompositionError"
            /\ UNCHANGED sv_i
       ELSE /\ sv_pc' = IF sv_env.questions = <<>> THEN "extract" ELSE "retrieve"
            /\ sv_exc' = "none"
            /\ sv_i' = 1
    /\ UNCHANGED <<sv_strategy, sv_env, sv_results, sv_out, refVars, igVars, fmVars, rtVars>>

\* services.py:154-165: one iteration of the loop
RetrieveSubQuestion ==
    /\ sv_pc = "retrieve"
    /\ LET n == Len(sv_env.questions)
           sub_question == sv_env.questions[sv_i]
       IN IF ~sv_strategy
          THEN \* line 165: the method _retrieve_with_direct_client does not exist
               /\ sv_calls' = Append(sv_calls, Call("direct", sv_i, FALSE))
               /\ sv_pc' = "raised"
               /\ sv_exc' = "AttributeError"
               /\ UNCHANGED <<sv_i, sv_results>>
          ELSE IF sv_i \in sv_env.failing
          THEN /\ sv_calls' = Append(sv_calls, Call("retrieve", sv_i, FALSE))
               /\ sv_pc' = AfterRetrieveFailure(sv_i, n).pc
               /\ sv_exc' = AfterRetrieveFailure(sv_i, n).exc
               /\ sv_i' = IF AfterRetrieveFailure(sv_i, n).pc = "raised" THEN sv_i
                          ELSE sv_i + 1
               /\ UNCHANGED sv_results
          ELSE /\ sv_calls' = Append(sv_calls, Call("retrieve", sv_i, TRUE))
               /\ sv_results' = DictSet(sv_results, sub_question, RetrievedFor(sv_i))
               /\ sv_pc' = IF sv_i < n THEN "retrieve" ELSE "extract"
               /\ sv_i' = sv_i + 1
               /\ UNCHANGED sv_exc
    /\ UNCHANGED <<sv_strategy, sv_env, sv_out, refVars, igVars, fmVars, rtVars>>

\* services.py:105
ExtractReferences ==
    /\ sv_pc = "extract"
    /\ sv_calls' = Append(sv_calls, Call("extract", 0, ~sv_env.extraction_raises))
    /\ sv_pc' = IF sv_env.extraction_raises THEN "raised" ELSE "llm"
    /\ sv_exc' = IF sv_env.extraction_raises THEN "ExtractionError" ELSE "none"
    /\ UNCHANGED <<sv_strategy, sv_env, sv_i, sv_results, sv_out, refVars, igVars, fmVars, rtVars>>

\* services.py:108-136
SynthesizeAnswer ==
    /\ sv_pc = "llm"
    /\ sv_calls' = Append(sv_calls, Call("llm", 0, ~sv_env.llm_raises))
    /\ IF sv_env.llm_raises
       THEN /\ sv_pc' = "raised"
            /\ sv_exc' = "LLMError"
            /\ UNCHANGED sv_out
       ELSE /\ sv_pc' = "done"
            /\ sv_out' = PyDict([answer |-> PyStr(<<"a">>),
                                 references |-> [extracted_from |-> sv_results]])
            /\ UNCHANGED sv_exc
    /\ UNCHANGED <<sv_strategy, sv_env, sv_i, sv_results, refVars, igVars, fmVars, rtVars>>

NextService ==
    \/ Decompose
    \/ RetrieveSubQuestion
    \/ ExtractReferences
    \/ SynthesizeAnswer

SpecService == InitService /\ [][NextService]_vars

-----------------------------------------------------------------------------
(* Claims about the orchestration.                                         *)

CallsOf(op) == {k \in 1..Len(sv_calls) : sv_calls[k].op = op}

RetrievalCalls == CallsOf("retrieve") \cup CallsOf("direct")

\* C20: a failure of decomposition or of a sub-question's retrieval is the
\* last call of the request and leaves answer_question as an exception with
\* nothing returned; decomposition is called once and no sub-question is
\* retrieved twice; extraction and the answer LLM are called, and a value is
\* returned, only after every sub-question's retrieval has succeeded.
C20_FailFast ==
    /\ \A k \in CallsOf("decompose") \cup RetrievalCalls :
          ~sv_calls[k].ok =>
              /\ k = Len(sv_calls)
              /\ sv_pc = "raised"
              /\ sv_exc # "none"
              /\ sv_out = PyNone
    /\ Cardinality(CallsOf("decompose")) <= 1
    /\ \A j, k \in RetrievalCalls : sv_calls[j].i = sv_calls[k].i => j = k
    /\ (CallsOf("extract") \cup CallsOf("llm") # {} \/ sv_out # PyNone) =>
          \A i \in 1..Len(sv_env.questions) :
              \E k \in CallsOf("retrieve") : sv_calls[k].i = i /\ sv_calls[k].ok

\* the second of three retrievals raised: the request ended there
C20_Witness ==
    /\ sv_pc = "raised"
    /\ Len(sv_env.questions) = 3
    /\ sv_calls = <<Call("decompose", 0, TRUE), Call("retrieve", 1, TRUE),
                    Call("retrieve", 2, FALSE)>>
    /\ sv_out = PyNone

\* the loop of _retrieve_points has run to its end
RetrievalCompleted == sv_pc \in {"extract", "llm", "done"}

\* the slot of results that holds what the i-th mapping's retrieval returned
SlotsOf(i) == {k \in 1..Len(sv_results) : sv_results[k].value = RetrievedFor(i)}

\* C21: when every retrieval has completed, the mapping has one entry per
\* SubQuestionMapping and each mapping's result is still in a slot of its
\* own: no retrieval has overwritten what another mapping's retrieval wrote.
C21_DisjointSlots ==
    RetrievalCompleted =>
        /\ Len(sv_results) = Len(sv_env.questions)
        /\ \A i \in 1..Len(sv_env.questions) : SlotsOf(i) # {}

\* C22: one request makes at most 4 retrieve calls and its results mapping
\* has at most 4 keys, whatever the decomposition returned.
C22_AtMostFourSubQuestions ==
    /\ Cardinality(RetrievalCalls) <= 4
    /\ Len(sv_results) <= 4

\* C25: a service constructed with retriever_strategy=None whose collaborators
\* do not fail answers: the request never ends in an exception, and every
\* sub-question is retrieved before the answer is returned.
C25_DirectClientFallback ==
    (~sv_strategy /\ ~sv_env.decomposition_raises /\ sv_env.failing = {}
        /\ ~sv_env.extraction_raises /\ ~sv_env.llm_raises) =>
        /\ sv_pc # "raised"
        /\ sv_pc = "done" =>
              /\ sv_out # PyNone
              /\ {"answer", "references"} \subseteq DOMAIN sv_out.d
              /\ Len(sv_results) > 0 \/ sv_env.questions = <<>>

-----------------------------------------------------------------------------
(* SpecConnection: the process-wide QDrantConnectionManager                 *)
(* (src/gigo_ingestion/src/db/manager.py), imported by the retrieval        *)
(* service as src.db.manager.  Objects are numbered from 1 and 0 stands for *)
(* None.  cm_log records every operation: its name, the _client it left on  *)
(* the instance, and what it returned ("raised" when it raised).            *)

MaxOps == 4

Op(op, client, ret) == [op |-> op, client |-> client, ret |-> ret]

\* manager.py:14-17: __new__ makes the instance only when there is none
New(instance) == IF instance = 0 THEN 1 ELSE instance

\* manager.py:19-20: __init__ runs on every QDrantConnectionManager() call,
\* on the instance __new__ returned, whatever _client it holds
InitSelf(client) == 0

InitConnection ==
    /\ cm_pc = "run"
    /\ cm_instance = 0
    /\ cm_client = 0
    /\ cm_made = 0
    /\ cm_log = <<>>
    /\ IdleReferences
    /\ IdleCore
    /\ IdleIndexer
    /\ IdlePipeline

\* QDrantConnectionManager(): manager.py:51, services.py:85, main.py:119
Construct ==
    /\ cm_pc = "run"
    /\ Len(cm_log) < MaxOps
    /\ cm_instance' = New(cm_instance)
    /\ cm_client' = InitSelf(cm_client)
    /\ cm_log' = Append(cm_log, Op("construct", cm_client', cm_instance'))
    /\ UNCHANGED <<cm_pc, cm_made, refVars, fmVars, rtVars, svVars, ixVars, pdVars>>

\* manager.py:22-28: init() when QdrantClient(...) returns
InitClient ==
    /\ cm_pc = "run"
    /\ cm_instance # 0
    /\ Len(cm_log) < MaxOps
    /\ cm_made' = cm_made + 1
    /\ cm_client' = cm_made'
    /\ cm_log' = Append(cm_log, Op("init", cm_client', PyNone))
    /\ UNCHANGED <<cm_pc, cm_instance, refVars, fmVars, rtVars, svVars, ixVars, pdVars>>

\* manager.py:29-31: QdrantClient(...) raised; the exception is logged and
\* raised again, _client keeps what it held
InitClientRaises ==
    /\ cm_pc = "run"
    /\ cm_instance # 0
    /\ Len(cm_log) < MaxOps
    /\ cm_log' = Append(cm_log, Op("init", cm_client, "raised"))
    /\ UNCHANGED <<cm_pc, cm_instance, cm_client, cm_made,
                   refVars, fmVars, rtVars, svVars, ixVars, pdVars>>

\* manager.py:33-34
GetClient ==
    /\ cm_pc = "run"
    /\ cm_instance # 0
    /\ Len(cm_log) < MaxOps
    /\ cm_log' = Append(cm_log, Op("get_client", cm_client, cm_client))
    /\ UNCHANGED <<cm_pc, cm_instance, cm_client, cm_made,
                   refVars, fmVars, rtVars, svVars, ixVars, pdVars>>

\* manager.py:36-39: close() closes the client and keeps the reference
Close ==
    /\ cm_pc = "run"
    /\ cm_instance # 0
    /\ Len(cm_log) < MaxOps
    /\ cm_log' = Append(cm_log, Op("close", cm_client, PyNone))
    /\ UNCHANGED <<cm_pc, cm_instance, cm_client, cm_made,
                   refVars, fmVars, rtVars, svVars, ixVars, pdVars>>

\* manager.py:41-48: False without a client; with one, whether
\* get_collections() answers
Connected ==
    /\ cm_pc = "run"
    /\ cm_instance # 0
    /\ Len(cm_log) < MaxOps
    /\ \E answers \in BOOLEAN :
          cm_log' = Append(cm_log, Op("connected", cm_client, cm_client # 0 /\ answers))
    /\ UNCHANGED <<cm_pc, cm_instance, cm_client, cm_made,
                   refVars, fmVars, rtVars, svVars, ixVars, pdVars>>

NextConnection ==
    \/ Construct
    \/ InitClient
    \/ InitClientRaises
    \/ GetClient
    \/ Close
    \/ Connected

SpecConnection == InitConnection /\ [][NextConnection]_vars

\* C23: once init() has set the client, no operation other than init()
\* changes the client get_client() returns, and every construction of
\* QDrantConnectionManager returns the one instance.
C23_ClientReadOnlyAfterInit ==
    \A k \in 1..Len(cm_log) :
        /\ cm_log[k].op = "construct" => cm_log[k].ret = 1
        /\ (k > 1 /\ cm_log[k-1].client # 0 /\ cm_log[k].op # "init") =>
              cm_log[k].client = cm_log[k-1].client

-----------------------------------------------------------------------------
(* SpecIndexer: QdrantIndexer (src/gigo_ingestion/src/indexer.py):          *)
(* _process_page_metadata page by page, then index_documents batch by       *)
(* batch.  Whether creating and upserting a batch raises is the store's and *)
(* the embedding service's affair: both outcomes are possible for every     *)
(* batch.  The order in which list() gives the members of a set is that of  *)
(* the process's hash table: every order it can take is an outcome.         *)

MaxPages == 3
MaxBatchSize == 2

EmptyDict == PyDict(<<>>)
EmptyList == PyList(<<>>)
EmptyStr == PyStr(<<>>)

Min(a, b) == IF a < b THEN a ELSE b

Str_text_block == <<"t", "e", "x", "t", "_", "b", "l", "o", "c", "k">>
Str_unknown == <<"u", "n", "k", "n", "o", "w", "n">>

\* the characters chr(32) .. chr(95) in the order of their code points
UpperCharacters ==
    << " ", "!", "\"", "#", "$", "%", "&", "'", "(", ")", "*", "+", ",", "-", ".", "/",
       "0", "1", "2", "3", "4", "5", "6", "7", "8", "9", ":", ";", "<", "=", ">", "?",
       "@", "A", "B", "C", "D", "E", "F", "G", "H", "I", "J", "K", "L", "M", "N", "O",
       "P", "Q", "R", "S", "T", "U", "V", "W", "X", "Y", "Z", "[", "\\", "]", "^", "_" >>

\* the characters chr(97) .. chr(126) in the order of their code points
LowerCharacters ==
    << "a", "b", "c", "d", "e", "f", "g", "h", "i", "j", "k", "l", "m", "n", "o",
       "p", "q", "r", "s", "t", "u", "v", "w", "x", "y", "z", "{", "|", "}", "~" >>

\* ord(c) of a character of the two tables and of the white space
Ord(c) ==
    CASE c = "\t" -> 9
      [] c = "\n" -> 10
      [] c = "\f" -> 12
      [] c = "\r" -> 13
      [] \E k \in 1..Len(UpperCharacters) : UpperCharacters[k] = c ->
            31 + (CHOOSE k \in 1..Len(UpperCharacters) : UpperCharacters[k] = c)
      [] \E k \in 1..Len(LowerCharacters) : LowerCharacters[k] = c ->
            96 + (CHOOSE k \in 1..Len(LowerCharacters) : LowerCharacters[k] = c)

\* a < b of two str: by code point, a proper prefix first
StrLess(a, b) ==
    \/ Len(a) < Len(b) /\ SubSeq(b, 1, Len(a)) = a
    \/ \E i \in 1..Min(Len(a), Len(b)) :
          /\ SubSeq(a, 1, i - 1) = SubSeq(b, 1, i - 1)
          /\ Ord(a[i]) < Ord(b[i])

\* an int or a bool; a bool counts as 0 or 1
Numeric(v) == v.ty \in {"int", "bool"}

NumericValue(v) == IF v.ty = "bool" THEN (IF v.b THEN 1 ELSE 0) ELSE v.n

\* a == b of two hashable values
PyEq(a, b) == a = b \/ (Numeric(a) /\ Numeric(b) /\ NumericValue(a) = NumericValue(b))

\* whether a < b is defined
Comparable(a, b) == (a.ty = "str" /\ b.ty = "str") \/ (Numeric(a) /\ Numeric(b))

\* a < b of two comparable values
PyLess(a, b) ==
    IF a.ty = "str" THEN StrLess(a.s, b.s) ELSE NumericValue(a) < NumericValue(b)

FirstOf(indices) == CHOOSE k \in indices : \A j \in indices : k <= j

\* a_set.add(x), members being the members in the order they were added: a
\* member equal to x stays
SetAdd(members, x) ==
    IF \E k \in 1..Len(members) : PyEq(members[k], x) THEN members ELSE Append(members, x)

RECURSIVE SetUpdate(_, _)
\* a_set.update(items), every item hashable
SetUpdate(members, items) ==
    IF items = <<>> THEN members
    ELSE SetUpdate(SetAdd(members, Head(items)), Tail(items))

\* list(a_set): the lists it can return.  The order is that of the hash
\* table: ints and bools from 0 to 7 come in increasing order, a str has a
\* hash that differs from process to process, so every order is possible
ListsOf(S) ==
    IF \A x \in S : Numeric(x) /\ NumericValue(x) \in 0..7
    THEN {CHOOSE l \in [1..Cardinality(S) -> S] :
             \A j, k \in 1..Cardinality(S) : j < k => PyLess(l[j], l[k])}
    ELSE {l \in [1..Cardinality(S) -> S] :
             \A j, k \in 1..Cardinality(S) : j # k => l[j] # l[k]}

RECURSIVE Sorted(_)
\* sorted(a_set), the members comparable with each other
Sorted(S) ==
    IF S = {} THEN <<>>
    ELSE LET x == CHOOSE y \in S : \A z \in S \ {y} : PyLess(y, z)
         IN <<x>> \o Sorted(S \ {x})

\* the messages of the exceptions
NoAttributeGet(v) == "'" \o TypeName(v) \o "' object has no attribute 'get'"
NotIterable(v) == "'" \o TypeName(v) \o "' object is not iterable"
UnhashableType(v) == "unhashable type: '" \o TypeName(v) \o "'"
NotSupported(a, b) ==
    "'<' not supported between instances of '" \o TypeName(a) \o "' and '"
        \o TypeName(b) \o "'"
ExpectedStr(k, v) ==
    "sequence item " \o ToString(k) \o ": expected str instance, " \o TypeName(v) \o " found"

\* hashing a member into a set: a list or a dict is unhashable
Unhashable(v) == v.ty \in {"list", "dict"}

\* a_set.update(el.get(key, [])): the message of the TypeError it raises,
\* "none" when it raises none
UpdateRaises(el, key) ==
    LET v == Get(el, key, EmptyList)
        unhashable == {k \in 1..Len(Iterate(v).items) : Unhashable(Iterate(v).items[k])}
    IN IF Iterate(v).exc # "none" THEN NotIterable(v)
       ELSE IF unhashable # {} THEN UnhashableType(Iterate(v).items[FirstOf(unhashable)])
       ELSE "none"

\* indexer.py:75-79: the keys in the order the loop body updates the sets
AggregatedKeys ==
    <<"entities", "keywords", "warnings", "application_context", "model_applicability">>

\* indexer.py:74-79: the message of the first update that raises, element
\* after element and key after key, "none" when none raises
UpdatesRaise(elements) ==
    LET raised(n) == UpdateRaises(elements[((n - 1) \div 5) + 1], AggregatedKeys[((n - 1) % 5) + 1])
        raising == {n \in 1..(5 * Len(elements)) : raised(n) # "none"}
    IN IF raising = {} THEN "none" ELSE raised(FirstOf(raising))

RECURSIVE CollectedFrom(_, _, _)
CollectedFrom(elements, key, members) ==
    IF elements = <<>> THEN members
    ELSE CollectedFrom(Tail(elements), key,
                       SetUpdate(members, Iterate(Get(Head(elements), key, EmptyList)).items))

\* the members a_set.update(el.get(key, [])) collects over all elements
Collected(elements, key) == Range(CollectedFrom(elements, key, <<>>))

\* U+2013 EN DASH of indexer.py:57 and :59, a character a string of this
\* language cannot hold: the hyphen stands for it
EnDash == "-"

\* the summary at the end of a line that str.strip() is applied to
SummaryText(summary) ==
    IF summary.ty = "str" THEN Join(RStrip(summary.s)) ELSE Format(summary)

\* indexer.py:50-61: the body line of one content element, stripped
ElementText(el) ==
    LET el_type == Get(el, "type", EmptyStr)
        title == Format(Get(el, "title", EmptyStr))
        summary == SummaryText(Get(el, "summary", EmptyStr))
    IN IF el_type = PyStr(Str_text_block)
       THEN "Text Block: " \o title \o "\nSummary:"
                \o (IF summary = "" THEN "" ELSE " " \o summary)
       ELSE IF el_type = PyStr(Str_figure)
       THEN "Figure: " \o title \o " " \o EnDash
                \o (IF summary = "" THEN "" ELSE " " \o summary)
       ELSE IF el_type = PyStr(Str_table)
       THEN "Table: " \o title \o " " \o EnDash
                \o (IF summary = "" THEN "" ELSE " " \o summary)
       ELSE ""

\* indexer.py:81-87: the outcomes of one line of the tail.  sorted() raises
\* when two members cannot be compared, and which two it meets first is the
\* order of the hash table; join raises at a member that is not a str
TailPart(label, S) ==
    LET unordered == {pair \in S \X S : pair[1] # pair[2] /\ ~Comparable(pair[1], pair[2])}
        strangers == {k \in 1..Cardinality(S) : Sorted(S)[k].ty # "str"}
    IN IF S = {} THEN {FormatReturned("")}
       ELSE IF unordered # {}
       THEN {FormatRaised(NotSupported(pair[1], pair[2])) : pair \in unordered}
       ELSE IF strangers # {}
       THEN {FormatRaised(ExpectedStr(FirstOf(strangers) - 1, Sorted(S)[FirstOf(strangers)]))}
       ELSE {FormatReturned(label \o ": "
                \o JoinWith(", ", [k \in 1..Cardinality(S) |-> Join(Sorted(S)[k].s)]))}

IsPart(part) == part # ""

\* indexer.py:20-91: the outcomes of the call, each the embedding text or
\* the message of the exception raised on the way
build_embedding_text_from_page_metadata(metadata) ==
    IF ~HasGet(metadata) THEN {FormatRaised(NoAttributeGet(metadata))}
    ELSE
    LET doc == Get(metadata, "document_metadata", EmptyDict)
        section == Get(metadata, "section", EmptyDict)
        page_number == Get(metadata, "page_number", EmptyStr)
        content_elements == Get(metadata, "content_elements", EmptyList)
    IN IF ~HasGet(doc) THEN {FormatRaised(NoAttributeGet(doc))}
       ELSE IF ~HasGet(section) THEN {FormatRaised(NoAttributeGet(section))}
       ELSE IF Iterate(content_elements).exc # "none"
       THEN {FormatRaised(NotIterable(content_elements))}
       ELSE
       LET els == Iterate(content_elements).items
           without_get == {k \in 1..Len(els) : ~HasGet(els[k])}
           header ==
             << "Document: " \o Format(Get(doc, "document_title", EmptyStr)) \o " ("
                    \o Format(Get(doc, "manufacturer", EmptyStr)) \o ", Revision "
                    \o Format(Get(doc, "document_revision", EmptyStr)) \o ")",
                "Section: " \o Format(Get(section, "section_number", EmptyStr)) \o " "
                    \o Format(Get(section, "section_title", EmptyStr)),
                "Subsection: " \o Format(Get(section, "subsection_number", EmptyStr)) \o " "
                    \o Format(Get(section, "subsection_title", EmptyStr)),
                "Page: " \o Format(page_number) >>
           text_content == Get(metadata, "text_content", PyNone)
           body == [k \in 1..Len(els) |-> ElementText(els[k])]
                   \o (IF Truthy(text_content)
                       THEN <<"Full Text Content:\n" \o Format(text_content)>> ELSE <<>>)
           tail ==
             << TailPart("Entities", Collected(els, "entities")),
                TailPart("Warnings", Collected(els, "warnings")),
                TailPart("Keywords", Collected(els, "keywords")),
                TailPart("Model Applicability", Collected(els, "model_applicability")),
                TailPart("Context", Collected(els, "application_context")) >>
           raising == {k \in 1..Len(tail) : \E outcome \in tail[k] : outcome.exc # "none"}
           lines == [k \in 1..Len(tail) |-> (CHOOSE outcome \in tail[k] : TRUE).value]
       IN IF without_get # {} THEN {FormatRaised(NoAttributeGet(els[FirstOf(without_get)]))}
          ELSE IF UpdatesRaise(els) # "none" THEN {FormatRaised(UpdatesRaise(els))}
          ELSE IF raising # {} THEN tail[FirstOf(raising)]
          ELSE {FormatReturned(JoinWith("\n\n", SelectSeq(header \o body \o lines, IsPart)))}

\* indexer.py:161-169: the point id; hash() of a str differs from process to
\* process, so the id is kept as the text that is hashed
PointId(page_metadata, i) ==
    LET doc_info == Get(page_metadata, "document_metadata", EmptyDict)
        page_num == Get(page_metadata, "page_number", PyInt(i))
        doc_id == Get(doc_info, "document_id", PyStr(Str_unknown))
    IN [hash_of |-> Format(doc_id) \o "_page_" \o Format(page_num)]

\* el.get("component_type") of every element
ComponentTypeOf(el) == Get(el, "component_type", PyNone)

\* indexer.py:212-219: the message of the TypeError of adding an unhashable
\* component_type, "none" when none is added
ComponentTypeRaises(page_metadata) ==
    LET els == Iterate(Get(page_metadata, "content_elements", EmptyList)).items
        unhashable == {k \in 1..Len(els) : /\ Truthy(ComponentTypeOf(els[k]))
                                           /\ Unhashable(ComponentTypeOf(els[k]))}
    IN IF unhashable = {} THEN "none"
       ELSE UnhashableType(ComponentTypeOf(els[FirstOf(unhashable)]))

\* indexer.py:175-236: the dicts the block can build, one for every order
\* list() can give the members of the sets
StructuredMetadata(page_metadata, include_full_metadata) ==
    LET doc_info == Get(page_metadata, "document_metadata", EmptyDict)
        section == Get(page_metadata, "section", EmptyDict)
        els == Iterate(Get(page_metadata, "content_elements", EmptyList)).items
        all_component_types ==
            Range(SetUpdate(<<>>, SelectSeq([k \in 1..Len(els) |-> ComponentTypeOf(els[k])],
                                            Truthy)))
        fields(entities, keywords, warnings, contexts, models, component_types) ==
          [page_number |-> Get(page_metadata, "page_number", PyNone),
           document_id |-> Get(doc_info, "document_id", PyNone),
           document_title |-> Get(doc_info, "document_title", PyNone),
           document_type |-> Get(doc_info, "document_type", PyNone),
           manufacturer |-> Get(doc_info, "manufacturer", PyNone),
           models_covered |-> Get(doc_info, "models_covered", EmptyList),
           section_number |-> Get(section, "section_number", PyNone),
           section_title |-> Get(section, "section_title", PyNone),
           subsection_number |-> Get(section, "subsection_number", PyNone),
           subsection_title |-> Get(section, "subsection_title", PyNone),
           has_tables |-> Get(page_metadata, "has_tables", PyBool(FALSE)),
           has_figures |-> Get(page_metadata, "has_figures", PyBool(FALSE)),
           table_count |-> Get(page_metadata, "table_count", PyInt(0)),
           figure_count |-> Get(page_metadata, "figure_count", PyInt(0)),
           text_block_count |-> Get(page_metadata, "text_block_count", PyInt(0)),
           page_visual_description |-> Get(page_metadata, "page_visual_description", PyNone),
           entities |-> PyList(entities),
           keywords |-> PyList(keywords),
           warnings |-> PyList(warnings),
           application_contexts |-> PyList(contexts),
           applicable_models |-> PyList(models),
           component_types |-> PyList(component_types)]
    IN { PyDict(IF include_full_metadata
                THEN [full_page_metadata |-> page_metadata]
                         @@ fields(entities, keywords, warnings, contexts, models,
                                   component_types)
                ELSE fields(entities, keywords, warnings, contexts, models,
                            component_types)) :
           entities \in ListsOf(Collected(els, "entities")),
           keywords \in ListsOf(Collected(els, "keywords")),
           warnings \in ListsOf(Collected(els, "warnings")),
           contexts \in ListsOf(Collected(els, "application_context")),
           models \in ListsOf(Collected(els, "model_applicability")),
           component_types \in ListsOf(all_component_types) }

\* indexer.py:238-243: the fallback entries of a page that raised
FallbackDocument(i) == "Error processing page " \o ToString(i)
FallbackMetadata(e, i) == PyDict([error |-> e, page_index |-> PyInt(i)])

Lists(ids, documents, metadata) ==
    [ids |-> ids, documents |-> documents, metadata |-> metadata]

\* indexer.py:156-243: one iteration of the loop over the pages, as the
\* lists it can leave.  The try block appends to ids and documents (lines
\* 171-172) before it builds the metadata (lines 175-236); the handler
\* appends to all three lists.
ProcessPage(i, page_metadata, include_full_metadata, ids, documents, metadata) ==
    UNION {
        IF built.exc # "none"
        THEN {Lists(Append(ids, PyInt(i)),
                    Append(documents, FallbackDocument(i)),
                    Append(metadata, FallbackMetadata(built.exc, i)))}
        ELSE IF ComponentTypeRaises(page_metadata) # "none"
        THEN {Lists(Append(Append(ids, PointId(page_metadata, i)), PyInt(i)),
                    Append(Append(documents, built.value), FallbackDocument(i)),
                    Append(metadata,
                           FallbackMetadata(ComponentTypeRaises(page_metadata), i)))}
        ELSE {Lists(Append(ids, PointId(page_metadata, i)),
                    Append(documents, built.value),
                    Append(metadata, structured_metadata)) :
                 structured_metadata \in
                     StructuredMetadata(page_metadata, include_full_metadata)} :
        built \in build_embedding_text_from_page_metadata(page_metadata) }

\* a_list[processed:end_idx]: a slice stops at the end of the list
Slice(a_list, processed, end_idx) ==
    SubSeq(a_list, processed + 1, Min(end_idx, Len(a_list)))

\* indexer.py:269-274 with collection.py:183-206: zip stops at the shortest;
\* {"embedding_text": text, **metadata}: a key embedding_text of the metadata
\* takes the place of the text
BatchPoints(batch_ids, batch_docs, batch_metadata) ==
    [k \in 1..Min(Len(batch_ids), Min(Len(batch_docs), Len(batch_metadata))) |->
        [id |-> batch_ids[k],
         payload |-> PyDict(batch_metadata[k].d @@ [embedding_text |-> batch_docs[k]])]]

\* a batch that runs past the end of the documents
EndIdxUnclamped(processed, batch_size, total_docs) == processed + batch_size

\* indexer.py:263
EndIdx(processed, batch_size, total_docs) == Min(processed + batch_size, total_docs)

Str_pump == <<"p", "u", "m", "p">>
Str_motor == <<"m", "o", "t", "o", "r">>
Str_seal == <<"s", "e", "a", "l">>
Str_Gasket == <<"G", "a", "s", "k", "e", "t">>
Str_overview == <<"o", "v", "e", "r", "v", "i", "e", "w", "\n">>
Str_Parts == <<"P", "a", "r", "t", "s">>

\* pages: complete, with two keywords met in the order seal, Gasket and a
\* summary that ends in a newline; with document_metadata None (raises while
\* the embedding text is built); with a list as component_type (raises while
\* the metadata is built)
PagePool ==
    { PyDict([page_number |-> PyInt(7),
              document_metadata |-> PyDict([document_id |-> PyStr(Str_manual)]),
              section |-> PyDict([section_number |-> PyStr(<<"2">>)]),
              content_elements |-> PyList(<<
                  PyDict([type |-> PyStr(Str_text_block), title |-> PyStr(Str_pump),
                          summary |-> PyStr(Str_overview),
                          component_type |-> PyStr(Str_pump),
                          keywords |-> PyList(<<PyStr(Str_seal), PyStr(Str_Gasket),
                                                PyStr(Str_seal)>>)])>>)]),
      PyDict([page_number |-> PyInt(8), document_metadata |-> PyNone]),
      PyDict([page_number |-> PyInt(9),
              content_elements |-> PyList(<<
                  PyDict([type |-> PyStr(Str_table), title |-> PyStr(Str_Parts),
                          component_type |-> PyList(<<PyStr(Str_pump),
                                                      PyStr(Str_motor)>>)])>>)]) }

InitIndexer ==
    /\ ix_pc = "process"
    /\ \E n \in 0..MaxPages : ix_pages \in [1..n -> PagePool]
    /\ ix_batch_size \in 1..MaxBatchSize
    /\ ix_full \in BOOLEAN
    /\ ix_i = 0
    /\ ix_ids = <<>>
    /\ ix_documents = <<>>
    /\ ix_metadata = <<>>
    /\ ix_processed = 0
    /\ ix_attempts = <<>>
    /\ ix_failed = <<>>
    /\ ix_upserted = <<>>
    /\ IdleReferences
    /\ IdleCore
    /\ IdleConnection
    /\ IdlePipeline

\* indexer.py:156-243: the loop body for page ix_i
ProcessPageMetadata ==
    /\ ix_pc = "process"
    /\ ix_i < Len(ix_pages)
    /\ \E lists \in ProcessPage(ix_i, ix_pages[ix_i + 1], ix_full,
                                 ix_ids, ix_documents, ix_metadata) :
          /\ ix_ids' = lists.ids
          /\ ix_documents' = lists.documents
          /\ ix_metadata' = lists.metadata
    /\ ix_i' = ix_i + 1
    /\ UNCHANGED <<ix_pc, ix_pages, ix_batch_size, ix_full, ix_processed, ix_attempts,
                   ix_failed, ix_upserted, refVars, fmVars, rtVars, svVars, cmVars, pdVars>>

\* indexer.py:136-138, 250-259: the constructor returns, index_documents starts
StartIndexing ==
    /\ ix_pc = "process"
    /\ ix_i = Len(ix_pages)
    /\ ix_pc' = "index"
    /\ ix_processed' = 0
    /\ ix_failed' = <<>>
    /\ UNCHANGED <<ix_pages, ix_batch_size, ix_full, ix_i, ix_ids, ix_documents,
                   ix_metadata, ix_attempts, ix_upserted,
                   refVars, fmVars, rtVars, svVars, cmVars, pdVars>>

\* indexer.py:262-276, 284-286: a batch whose points are created and upserted
IndexBatch ==
    /\ ix_pc = "index"
    /\ ix_processed < Len(ix_documents)
    /\ LET end_idx == EndIdx(ix_processed, ix_batch_size, Len(ix_documents))
       IN /\ ix_attempts' = Append(ix_attempts, <<ix_processed, end_idx>>)
          /\ ix_upserted' = ix_upserted \o
                BatchPoints(Slice(ix_ids, ix_processed, end_idx),
                            Slice(ix_documents, ix_processed, end_idx),
                            Slice(ix_metadata, ix_processed, end_idx))
          /\ ix_processed' = end_idx
    /\ UNCHANGED <<ix_pc, ix_pages, ix_batch_size, ix_full, ix_i, ix_ids, ix_documents,
                   ix_metadata, ix_failed, refVars, fmVars, rtVars, svVars, cmVars, pdVars>>

\* indexer.py:262-286: a batch whose creation or upsert raises
IndexBatchRaises ==
    /\ ix_pc = "index"
    /\ ix_processed < Len(ix_documents)
    /\ LET end_idx == EndIdx(ix_processed, ix_batch_size, Len(ix_documents))
       IN /\ ix_attempts' = Append(ix_attempts, <<ix_processed, end_idx>>)
          /\ ix_failed' = Append(ix_failed, <<ix_processed, end_idx>>)
          /\ ix_processed' = end_idx
    /\ UNCHANGED <<ix_pc, ix_pages, ix_batch_size, ix_full, ix_i, ix_ids, ix_documents,
                   ix_metadata, ix_upserted, refVars, fmVars, rtVars, svVars, cmVars, pdVars>>

\* indexer.py:262, 288-293: the loop ends and index_documents returns
FinishIndexing ==
    /\ ix_pc = "index"
    /\ ~(ix_processed < Len(ix_documents))
    /\ ix_pc' = "indexed"
    /\ UNCHANGED <<ix_pages, ix_batch_size, ix_full, ix_i, ix_ids, ix_documents,
                   ix_metadata, ix_processed, ix_attempts, ix_failed, ix_upserted,
                   refVars, fmVars, rtVars, svVars, cmVars, pdVars>>

NextIndexer ==
    \/ ProcessPageMetadata
    \/ StartIndexing
    \/ IndexBatch
    \/ IndexBatchRaises
    \/ FinishIndexing

SpecIndexer == InitIndexer /\ [][NextIndexer]_vars

\* index_documents, from its call to its return
IndexDocuments == StartIndexing \/ IndexBatch \/ IndexBatchRaises \/ FinishIndexing

\* the call of index_documents and every step of its loop is eventually taken
SpecIndexerLive == SpecIndexer /\ WF_vars(IndexDocuments)

-----------------------------------------------------------------------------
(* Claims about the indexer.                                               *)

\* the batches attempted so far are contiguous ranges of at most batch_size
\* documents, in increasing order from 0, and every failed one is recorded
BatchesContiguous ==
    /\ \A k \in 1..Len(ix_attempts) :
          /\ ix_attempts[k][1] < ix_attempts[k][2]
          /\ ix_attempts[k][2] - ix_attempts[k][1] <= ix_batch_size
          /\ ix_attempts[k][1] = IF k = 1 THEN 0 ELSE ix_attempts[k - 1][2]
    /\ ix_processed = IF ix_attempts = <<>> THEN 0 ELSE ix_attempts[Len(ix_attempts)][2]
    /\ Range(ix_failed) \subseteq Range(ix_attempts)

\* the attempted batches cover [0, total) and each one was upserted or recorded
BatchesCover ==
    /\ ix_processed = Len(ix_documents)
    /\ \A d \in 0..(Len(ix_documents) - 1) :
          Cardinality({k \in 1..Len(ix_attempts) :
                          ix_attempts[k][1] <= d /\ d < ix_attempts[k][2]}) = 1

\* C27: index_documents terminates for every document count and every
\* batch_size >= 1; the batches it attempts are contiguous ranges of at most
\* batch_size documents in increasing order that partition [0, total); a
\* batch that raises is recorded as failed and the later ones are attempted.
C27_BatchesPartitionAndTerminate ==
    /\ [](ix_pc \in {"index", "indexed"} => BatchesContiguous)
    /\ [](ix_pc = "indexed" => BatchesCover)
    /\ (ix_pc = "process" /\ ix_i = Len(ix_pages)) ~> (ix_pc = "indexed")

C27_Witness ==
    /\ ix_pc = "indexed"
    /\ Len(ix_pages) = Len(ix_documents)
    /\ Len(ix_attempts) = 2
    /\ ix_failed = <<ix_attempts[1]>>
    /\ ix_attempts[2][2] - ix_attempts[2][1] < ix_batch_size

\* what position k of the three lists holds when it refers to page k - 1
RefersToPage(k) ==
    LET i == k - 1
        page_metadata == ix_pages[k]
        returned == {built \in build_embedding_text_from_page_metadata(page_metadata) :
                        built.exc = "none"}
    IN /\ \/ ix_ids[k] = PyInt(i)
          \/ returned # {} /\ ix_ids[k] = PointId(page_metadata, i)
       /\ \/ ix_documents[k] = FallbackDocument(i)
          \/ \E built \in returned : ix_documents[k] = built.value
       /\ \/ /\ "page_index" \in DOMAIN ix_metadata[k].d
             /\ ix_metadata[k].d.page_index = PyInt(i)
          \/ /\ returned # {}
             /\ ix_metadata[k] \in StructuredMetadata(page_metadata, ix_full)

\* C28: after _process_page_metadata, whether or not a page raised, ids,
\* documents and metadata have one entry per input page and position i of
\* each refers to page i.
C28_ListsAligned ==
    ix_pc \in {"index", "indexed"} =>
        /\ Len(ix_ids) = Len(ix_pages)
        /\ Len(ix_documents) = Len(ix_pages)
        /\ Len(ix_metadata) = Len(ix_pages)
        /\ \A k \in 1..Len(ix_pages) : RefersToPage(k)

-----------------------------------------------------------------------------
(* SpecPipeline: DocumentPipeline.process_document                         *)
(* (src/gigo_ingestion/main.py), one call, step by step.  The parser, the   *)
(* extractors, the processors and the database are outside the method;     *)
(* what they will do in this call is fixed in pd_env when the call starts:  *)
(*   failing         the steps whose component raises                      *)
(*   connected       what db_manager.connected() answers at step 6         *)
(*   connect_raises  connect_database raises                               *)
(*   items           the count every step that succeeds reports            *)
(* pd_calls records the steps attempted.                                   *)

Steps == <<"parse", "metadata", "tables", "text", "images", "index">>

\* main.py:182, 197, 209, 221, 233, 251: the entry a failed step leaves in
\* results["errors"]; the component's own message is kept as the step's name
ErrorOf(step) ==
    (CASE step = "parse" -> "PDF parsing failed: "
       [] step = "metadata" -> "Page metadata extraction failed: "
       [] step = "tables" -> "Table processing failed: "
       [] step = "text" -> "Text block processing failed: "
       [] step = "images" -> "Image processing failed: "
       [] step = "index" -> "Database indexing failed: ") \o step

\* str(Path(chars)): the text without its empty and "." components; leading
\* slashes are the root (two are kept, three or more are one)
PathStr(chars) ==
    LET parts == SplitOn(chars, "/", <<>>)
        kept == SelectSeq([k \in 1..Len(parts) |-> Join(parts[k])], IsPathPart)
        leading == Cardinality({k \in 1..(Len(parts) - 1) : \A j \in 1..k : parts[j] = <<>>})
        root == IF leading = 0 THEN "" ELSE IF leading = 2 THEN "//" ELSE "/"
    IN IF kept = <<>> /\ root = "" THEN "." ELSE root \o JoinWith("/", kept)

\* Path(chars).stem: the last component up to its last dot, the whole of it
\* when that dot is its first or its last character
Stem(chars) ==
    LET parts == SelectSeq(SplitOn(chars, "/", <<>>), LAMBDA part : IsPathPart(Join(part)))
        name == IF parts = <<>> THEN <<>> ELSE parts[Len(parts)]
        dots == {i \in 1..Len(name) : name[i] = "."}
        last == CHOOSE i \in dots : \A j \in dots : j <= i
    IN IF dots # {} /\ 1 < last /\ last < Len(name)
       THEN SubSeq(name, 1, last - 1) ELSE name

\* the default value of output_dir, main.py:92
OutputDir == "data/processed"

\* main.py:158: document_name or pdf_path.stem
DocumentName(args) ==
    IF Truthy(args.document_name) THEN args.document_name
    ELSE PyStr(Stem(args.pdf_path))

\* main.py:159: self.output_dir / document_name
DocumentOutputDir(args) == PathUnder(OutputDir, "", DocumentName(args).s, "")

\* main.py:165-174
InitialResults(args) ==
    [document_name |-> DocumentName(args),
     pdf_path |-> PyText(PathStr(args.pdf_path)),
     output_dir |-> PyText(DocumentOutputDir(args)),
     pages_processed |-> 0, tables_processed |-> 0, text_blocks_processed |-> 0,
     images_processed |-> 0, errors |-> <<>>]

\* results[key] = value
SetItem(results, key, value) ==
    [k \in DOMAIN results \cup {key} |-> IF k = key THEN value ELSE results[k]]

\* main.py:186, 199: the step after parsing
AfterParse(args) == IF args.extract_metadata THEN "metadata" ELSE "tables"

\* a parse failure that is recorded and followed by the remaining steps
ContinueAfterParseFailure(args) == AfterParse(args)

\* main.py:180-183: a parse failure is recorded and the method returns
AfterParseFailure(args) == "returned"

\* main.py:236, 253: the step after the image step
AfterImages(args) == IF args.index_to_db THEN "index" ELSE "summary"

Str_pdf_path ==
    <<"d", "o", "c", "s", "/", ".", "/", "p", "u", "m", "p", ".", "v", "2", ".", "p", "d", "f">>

\* the document_name argument: left out, empty, given
DocumentNames == {PyNone, PyStr(<<>>), PyStr(Str_manual)}

InitPipeline ==
    /\ pd_pc = "start"
    /\ \E exists \in BOOLEAN, extract_metadata \in BOOLEAN, index_to_db \in BOOLEAN,
          document_name \in DocumentNames :
          pd_args = [pdf_path |-> Str_pdf_path, document_name |-> document_name,
                     exists |-> exists, extract_metadata |-> extract_metadata,
                     index_to_db |-> index_to_db]
    /\ \E failing \in SUBSET Range(Steps), connected \in BOOLEAN,
          connect_raises \in BOOLEAN, items \in {0, 2} :
          pd_env = [failing |-> failing, connected |-> connected,
                    connect_raises |-> connect_raises, items |-> items]
    /\ pd_results = <<>>
    /\ pd_calls = <<>>
    /\ pd_exc = "none"
    /\ IdleReferences
    /\ IdleCore
    /\ IdleConnection
    /\ IdleIndexer

\* main.py:154-174
StartDocument ==
    /\ pd_pc = "start"
    /\ IF pd_args.exists
       THEN /\ pd_pc' = "parse"
            /\ pd_results' = InitialResults(pd_args)
            /\ UNCHANGED pd_exc
       ELSE /\ pd_pc' = "raised"
            /\ pd_exc' = "FileNotFoundError"
            /\ UNCHANGED pd_results
    /\ UNCHANGED <<pd_args, pd_env, pd_calls, refVars, fmVars, rtVars, svVars, cmVars, ixVars>>

\* main.py:176-183
ParsePdf ==
    /\ pd_pc = "parse"
    /\ pd_calls' = Append(pd_calls, "parse")
    /\ IF "parse" \in pd_env.failing
       THEN /\ pd_results' = [pd_results EXCEPT !.errors = Append(@, ErrorOf("parse"))]
            /\ pd_pc' = AfterParseFailure(pd_args)
       ELSE /\ pd_pc' = AfterParse(pd_args)
            /\ UNCHANGED pd_results
    /\ UNCHANGED <<pd_args, pd_env, pd_exc, refVars, fmVars, rtVars, svVars, cmVars, ixVars>>

\* main.py:185-197
ExtractPageMetadata ==
    /\ pd_pc = "metadata"
    /\ pd_calls' = Append(pd_calls, "metadata")
    /\ pd_results' =
          IF "metadata" \in pd_env.failing
          THEN [pd_results EXCEPT !.errors = Append(@, ErrorOf("metadata"))]
          ELSE [pd_results EXCEPT !.pages_processed = pd_env.items]
    /\ pd_pc' = "tables"
    /\ UNCHANGED <<pd_args, pd_env, pd_exc, refVars, fmVars, rtVars, svVars, cmVars, ixVars>>

\* main.py:199-209
ProcessTables ==
    /\ pd_pc = "tables"
    /\ pd_calls' = Append(pd_calls, "tables")
    /\ pd_results' =
          IF "tables" \in pd_env.failing
          THEN [pd_results EXCEPT !.errors = Append(@, ErrorOf("tables"))]
          ELSE [pd_results EXCEPT !.tables_processed = pd_env.items]
    /\ pd_pc' = "text"
    /\ UNCHANGED <<pd_args, pd_env, pd_exc, refVars, fmVars, rtVars, svVars, cmVars, ixVars>>

\* main.py:211-221
ProcessTextBlocks ==
    /\ pd_pc = "text"
    /\ pd_calls' = Append(pd_calls, "text")
    /\ pd_results' =
          IF "text" \in pd_env.failing
          THEN [pd_results EXCEPT !.errors = Append(@, ErrorOf("text"))]
          ELSE [pd_results EXCEPT !.text_blocks_processed = pd_env.items]
    /\ pd_pc' = "images"
    /\ UNCHANGED <<pd_args, pd_env, pd_exc, refVars, fmVars, rtVars, svVars, cmVars, ixVars>>

\* main.py:223-236
ProcessImages ==
    /\ pd_pc = "images"
    /\ pd_calls' = Append(pd_calls, "images")
    /\ pd_results' =
          IF "images" \in pd_env.failing
          THEN [pd_results EXCEPT !.errors = Append(@, ErrorOf("images"))]
          ELSE [pd_results EXCEPT !.images_processed = pd_env.items]
    /\ pd_pc' = AfterImages(pd_args)
    /\ UNCHANGED <<pd_args, pd_env, pd_exc, refVars, fmVars, rtVars, svVars, cmVars, ixVars>>

\* main.py:237-251: connect when not connected, then index; whatever raises
\* inside the try is recorded
IndexFails ==
    \/ ~pd_env.connected /\ pd_env.connect_raises
    \/ "index" \in pd_env.failing

IndexToDatabase ==
    /\ pd_pc = "index"
    /\ pd_calls' = Append(pd_calls, "index")
    /\ pd_results' =
          IF IndexFails
          THEN [pd_results EXCEPT !.errors = Append(@, ErrorOf("index"))]
          ELSE SetItem(pd_results, "indexed_points", PyInt(pd_env.items))
    /\ pd_pc' = "summary"
    /\ UNCHANGED <<pd_args, pd_env, pd_exc, refVars, fmVars, rtVars, svVars, cmVars, ixVars>>

\* main.py:253-268
ReturnResults ==
    /\ pd_pc = "summary"
    /\ pd_pc' = "returned"
    /\ UNCHANGED <<pd_args, pd_env, pd_results, pd_calls, pd_exc,
                   refVars, fmVars, rtVars, svVars, cmVars, ixVars>>

NextPipeline ==
    \/ StartDocument
    \/ ParsePdf
    \/ ExtractPageMetadata
    \/ ProcessTables
    \/ ProcessTextBlocks
    \/ ProcessImages
    \/ IndexToDatabase
    \/ ReturnResults

SpecPipeline == InitPipeline /\ [][NextPipeline]_vars

-----------------------------------------------------------------------------
(* Claims about the pipeline.                                              *)

\* the steps of Steps that this call is asked to run, in the order of Steps
RequestedSteps ==
    SelectSeq(Steps, LAMBDA step :
        /\ step = "metadata" => pd_args.extract_metadata
        /\ step = "index" => pd_args.index_to_db)

StepFailed(step) == IF step = "index" THEN IndexFails ELSE step \in pd_env.failing

\* the errors the failed steps among `steps` leave, in order
ErrorsOf(steps) ==
    LET failed == SelectSeq(steps, StepFailed)
    IN [k \in 1..Len(failed) |-> ErrorOf(failed[k])]

\* C30: the steps run in the order parse, page metadata, tables, text blocks,
\* images, indexing; a parse failure ends the call with that one error; a
\* later failure is appended to errors and the following steps still run;
\* indexing is attempted only with index_to_db; once the PDF exists the
\* method returns the results and does not raise.
C30_StepsInOrder ==
    /\ pd_args.exists => pd_pc # "raised"
    /\ pd_calls = SubSeq(RequestedSteps, 1, Len(pd_calls))
    /\ pd_pc = "returned" =>
          IF "parse" \in pd_env.failing
          THEN /\ pd_calls = <<"parse">>
               /\ pd_results.errors = <<ErrorOf("parse")>>
          ELSE /\ pd_calls = RequestedSteps
               /\ pd_results.errors = ErrorsOf(RequestedSteps)

C30_Witness ==
    /\ pd_pc = "returned"
    /\ pd_calls = Steps
    /\ pd_results.errors = <<ErrorOf("tables"), ErrorOf("index")>>
    /\ pd_results.images_processed = 2

-----------------------------------------------------------------------------
(* The vector fields of the collection                                     *)
(* (src/gigo_ingestion/src/db/collection.py) and the shape of the staged    *)
(* queries.                                                                *)

\* a collection created without its sparse field
CreatedFieldsDenseOnly == {"dense", "colbert", "small-embedding", "large-embedding"}

\* collection.py:75-106: vectors_config and sparse_vectors_config of create
CreatedFields ==
    {"dense", "colbert", "small-embedding", "large-embedding"} \cup {"sparse"}

\* collection.py:134-141: the vectors _get_embeddings gives every point
PointVectorFields == {"dense", "colbert", "small-embedding", "large-embedding", "sparse"}

\* a field a query may name: created by the collection and carried by the points
QueryableFields == CreatedFields \cap PointVectorFields

\* the stages of a staged query, the query itself included
RECURSIVE StagesOf(_)
StagesOf(stage) ==
    {stage} \cup UNION {StagesOf(stage.prefetch[k]) : k \in 1..Len(stage.prefetch)}

IsLeafStage(stage) == stage.prefetch = <<>>
IsFusionStage(stage) == stage.prefetch # <<>> /\ stage.fusion = "rrf"
IsRerankStage(stage) == stage.prefetch # <<>> /\ stage.fusion = "none"

\* leaves name a queryable field, fusion nodes have at least 2 children and
\* rerank nodes a final field
LeavesAndFusionsWellFormed(query) ==
    \A stage \in StagesOf(query) :
        /\ IsLeafStage(stage) => stage.using \in QueryableFields /\ stage.fusion = "none"
        /\ IsFusionStage(stage) => Len(stage.prefetch) >= 2
        /\ IsRerankStage(stage) => stage.using \in QueryableFields

QueryBuilt == rt_pc = "returned" /\ rt_query # PyNone

\* C24 as stated: every staged query a strategy builds is well formed: each
\* leaf names one of the five fields, which the collection creates and every
\* point carries, every fusion node has at least 2 children, and every
\* rerank node has exactly one prefetch subtree and one final field.
C24_StagedQueryWellFormed ==
    QueryBuilt =>
        /\ LeavesAndFusionsWellFormed(rt_query)
        /\ \A stage \in StagesOf(rt_query) :
              IsRerankStage(stage) => Len(stage.prefetch) = 1

\* C24 amended: leaves and fusion nodes as stated; every rerank node has one
\* final field and exactly one prefetch subtree, except the outer stage of
\* a Hybrid or Fusion query, which reranks two sibling prefetch subtrees.
C24_StagedQueryWellFormedAmended ==
    QueryBuilt =>
        /\ LeavesAndFusionsWellFormed(rt_query)
        /\ \A stage \in StagesOf(rt_query) :
              IsRerankStage(stage) =>
                 Len(stage.prefetch) =
                    IF stage = rt_query
                       /\ rt_retriever \in {"HybridRetriever", "FusionybridRetriever"}
                    THEN 2 ELSE 1

C24_Witness ==
    /\ QueryBuilt
    /\ rt_retriever = "FusionybridRetriever"
    /\ \E stage \in StagesOf(rt_query) : IsFusionStage(stage)
    /\ \E stage \in StagesOf(rt_query) : IsRerankStage(stage) /\ stage # rt_query
    /\ \E stage \in StagesOf(rt_query) : IsLeafStage(stage) /\ stage.using = "sparse"


-----------------------------------------------------------------------------
(* Claims about what reference extraction does to its argument.            *)

\* C26: extraction, correlation and deduplication leave the mapping of
\* sub-questions to results unchanged, so the answer step of answer_question
\* receives the mapping the references were extracted from.
C26_MappingUnchanged == [][ex_points' = ex_points]_vars

C26_Witness ==
    /\ ex_pc = "done"
    /\ Len(Visits(ex_points)) >= 2
    /\ ex_out.tables # <<>>
    /\ ex_out.figures # <<>>


-----------------------------------------------------------------------------
(* SpecFormatted: extract_tables_and_figures_references over results made   *)
(* by BaseQdrantRetriever._format_results from stored payloads, as in       *)
(* answer_question.  A stored payload is what the indexer writes: keys of   *)
(* its own and, under full_page_metadata, the page's metadata.              *)

\* the page metadata has identifiers in all five locations
StoredRichPayload == PyDict([page_number |-> Page(5), full_page_metadata |-> RichResult])

\* the page metadata has a figure with related figures
StoredFigurePayload == PyDict([page_number |-> Page(5), full_page_metadata |-> FigureResult])

\* the page metadata has tables and a summary and no content_elements
StoredSummaryPayload == PyDict([page_number |-> Page(7), full_page_metadata |-> NoPageResult])

\* no full_page_metadata: the five locations are keys of the payload itself
StoredFlatPayload == RichResult

StoredPool ==
    {StoredRichPayload, StoredFigurePayload, StoredSummaryPayload, StoredFlatPayload,
     PartialPayload}

\* the results _format_results makes of one stored point each
FormattedPool ==
    {format_results(<<Point(1, ScoreAt(1), payload)>>).value[1] : payload \in StoredPool}

InitFormatted == InitExtractFrom(FormattedPool)

SpecFormatted == InitFormatted /\ [][NextExtract]_vars

\* the result the extract call of a log entry was given
LoggedResult(entry) == Visits(ex_points)[entry.n].result

ReturnedNothing(entry) == entry.tables = <<>> /\ entry.figures = <<>>

FromContentElements(entry) == entry.extractor \in {"ContentElements", "WithinPageRelations"}

\* C29: a result made by BaseQdrantRetriever._format_results has no
\* top-level flattened_tables, table_metadata or content_summary, so the
\* FlattenedTables, TableMetadata and ContentSummary extractors return no
\* reference; every reference comes from content_elements; a result whose
\* payload has no full_page_metadata contributes no reference.
C29_OnlyContentElements ==
    /\ \A k \in 1..Len(ex_log) :
          /\ DOMAIN LoggedResult(ex_log[k]).d
                \cap {"flattened_tables", "table_metadata", "content_summary"} = {}
          /\ ~FromContentElements(ex_log[k]) => ReturnedNothing(ex_log[k])
          /\ "full_page_metadata" \notin DOMAIN LoggedResult(ex_log[k]).d.payload.d
                => ReturnedNothing(ex_log[k])
    /\ LET entries == SelectSeq(ex_log, FromContentElements)
       IN /\ Map(all_tables, AsReturned)
                = Flatten([k \in 1..Len(entries) |-> entries[k].tables])
          /\ Map(all_figures, AsReturned)
                = Flatten([k \in 1..Len(entries) |-> entries[k].figures])

C29_Witness ==
    /\ ex_pc = "done"
    /\ ex_out.tables # <<>>
    /\ ex_out.figures # <<>>
    /\ \E k \in 1..Len(ex_log) :
          /\ "full_page_metadata" \notin DOMAIN LoggedResult(ex_log[k]).d.payload.d
          /\ "flattened_tables" \in DOMAIN LoggedResult(ex_log[k]).d.payload.d
    /\ \E k \in 1..Len(ex_log) :
          LET payload == LoggedResult(ex_log[k]).d.payload
          IN /\ "full_page_metadata" \in DOMAIN payload.d
             /\ "table_metadata" \in DOMAIN payload.d.full_page_metadata.d

====
